---- MODULE Spec2Model ----
(***************************************************************************)
(* protomanager: the schema parser (ProtoFile), the example generator      *)
(* (ProtoJson) and the validator (ProtoValidator).                         *)
(*                                                                         *)
(* A Python value is a record of its type name t and its payload:          *)
(*   str s, int i, bool b          the value                               *)
(*   float h                       the value in hundredths                 *)
(*   NoneType                      no payload                              *)
(*   list v                        the sequence of the elements            *)
(*   dict v, OrderedDict v         the sequence of the [k |-> key, v |-> x]*)
(*                                 entries in insertion order              *)
(*   MessageField f, EnumField e   the record of the attributes            *)
(*   str text                      a formatted message: its format and the *)
(*                                 values formatted into it                *)
(* A schema line is a record of the parts of its text that the parser's    *)
(* prefix tests and regular expressions look at.                           *)
(***************************************************************************)
EXTENDS Integers, Sequences, FiniteSets, TLC

\* ------------------------------------------------------------------------
\* proto_manager.py: type tables
\* ------------------------------------------------------------------------

STRING_TYPES == <<"string", "google.protobuf.StringValue">>

INT_TYPES == <<"int32", "int64", "uint32", "uint64", "sint32", "sint64",
               "fixed32", "fixed64", "sfixed32", "sfixed64",
               "google.protobuf.Int32Value", "google.protobuf.Int64Value">>

FLOAT_TYPES == <<"float", "double">>

BOOL_TYPES == <<"bool", "google.protobuf.BoolValue">>

BYTES_TYPES == <<"bytes">>

InList(x, list) == \E i \in 1..Len(list) : list[i] = x

is_base_type(field_type) ==
    InList(field_type, STRING_TYPES \o FLOAT_TYPES \o INT_TYPES \o BOOL_TYPES \o BYTES_TYPES)

\* ------------------------------------------------------------------------
\* Python values
\* ------------------------------------------------------------------------

None == [t |-> "NoneType"]
PyStr(s) == [t |-> "str", s |-> s]
PyInt(i) == [t |-> "int", i |-> i]
PyFloat(h) == [t |-> "float", h |-> h]
PyBool(b) == [t |-> "bool", b |-> b]
PyList(s) == [t |-> "list", v |-> s]
PyDict(pairs) == [t |-> "dict", v |-> pairs]
PyOrderedDict(pairs) == [t |-> "OrderedDict", v |-> pairs]

IsMapping(d) == d.t \in {"dict", "OrderedDict"}

\* d.keys()
Keys(d) == [i \in 1..Len(d.v) |-> d.v[i].k]

\* key in d
Has(d, key) == \E i \in 1..Len(d.v) : d.v[i].k = key

\* d[key], for a key that is present
Get(d, key) == d.v[CHOOSE i \in 1..Len(d.v) : d.v[i].k = key].v

\* d[key] = val: an existing key keeps its position, a new key goes last
Put(d, key, val) ==
    IF Has(d, key)
    THEN [d EXCEPT !.v = [i \in 1..Len(d.v) |->
                            IF d.v[i].k = key THEN [k |-> key, v |-> val] ELSE d.v[i]]]
    ELSE [d EXCEPT !.v = Append(d.v, [k |-> key, v |-> val])]

\* d.update(other)
RECURSIVE UpdatePairs(_, _)
UpdatePairs(d, pairs) ==
    IF pairs = <<>> THEN d
    ELSE UpdatePairs(Put(d, Head(pairs).k, Head(pairs).v), Tail(pairs))

Update(d, other) == UpdatePairs(d, other.v)

\* ------------------------------------------------------------------------
\* proto_manager.py: MessageField, EnumField
\* ------------------------------------------------------------------------

\* Type names of the model; startswith('map<') holds of the three map types.
MapTypes == {"map<string, int32>", "map<string, X>", "map<string, core.Icon>"}

MessageField(field_type, is_repeated, is_required) ==
    [t |-> "MessageField",
     f |-> [type |-> field_type,
            is_repeated |-> is_repeated,
            is_required |-> is_required,
            is_base_type |-> is_base_type(field_type),
            is_map |-> field_type \in MapTypes,
            value |-> None]]

EnumField(name) == [t |-> "EnumField", e |-> [name |-> name, values |-> <<>>]]

IsMessageField(x) == x.t = "MessageField"
IsEnumField(x) == x.t = "EnumField"

FIELDS_KEY == "__fields__"

\* ------------------------------------------------------------------------
\* Schema lines
\* ------------------------------------------------------------------------

\* kind is the branch of __parse_line's prefix chain the stripped line
\* takes; a line of kind "other" has shape "enum_value" (matches
\* `\w+ = \d+;`), "field" (matches the field pattern), "reserved" or
\* "garbage" (matches neither pattern).
Line(kind, shape, name, field_type, repeated, suffix) ==
    [kind |-> kind, shape |-> shape, name |-> name, field_type |-> field_type,
     repeated |-> repeated, suffix |-> suffix]

LPackage(name) == Line("package", "", name, "", FALSE, "")
LImport(path) == Line("import", "", path, "", FALSE, "")
LMessage(name) == Line("message", "", name, "", FALSE, "")
LEnum(name) == Line("enum", "", name, "", FALSE, "")
LOneof(name) == Line("oneof", "", name, "", FALSE, "")
LClose == Line("close", "", "", "", FALSE, "")
LComment == Line("comment", "", "", "", FALSE, "")
LEnumValue(key) == Line("other", "enum_value", key, "", FALSE, "")
LField(repeated, field_type, name, suffix) ==
    Line("other", "field", name, field_type, repeated, suffix)

\* line.endswith('// required'), over the comment suffixes of the model
EndsWithRequired(suffix) == suffix \in {"// required", " // required"}

\* ------------------------------------------------------------------------
\* proto_manager.py: ProtoFile
\* ------------------------------------------------------------------------

\* Sources other than the one being parsed step by step, by file name.
CoreLines ==
    << LPackage("core"),
       LMessage("Icon"),
       LField(FALSE, "string", "n", "// required"),
       LClose,
       LEnum("Kind"),
       LEnumValue("K0"),
       LClose >>

\* A second file of the package core: its own Icon, a Badge, an import
Core2Lines ==
    << LPackage("core"),
       LImport("proto/base.proto"),
       LMessage("Icon"),
       LField(FALSE, "int32", "size", ""),
       LClose,
       LMessage("Badge"),
       LField(FALSE, "string", "n", ""),
       LClose >>

BaseLines == << LPackage("base"), LEnum("Level"), LEnumValue("L0"), LClose >>

UiLines ==
    << LPackage("ui"),
       LImport("proto/core.proto"),
       LMessage("Button"),
       LField(FALSE, "core.Icon", "icon", ""),
       LClose >>

\* A file that imports itself, and two files that import each other
LoopLines == << LPackage("loop"), LImport("proto/loop.proto"), LMessage("L"), LClose >>
PingLines == << LPackage("ping"), LImport("proto/pong.proto"), LMessage("P"), LClose >>
PongLines == << LPackage("pong"), LImport("proto/ping.proto"), LMessage("Q"), LClose >>

\* A file with a line in a message that is no field
BadLines ==
    << LPackage("bad"),
       LMessage("B"),
       Line("other", "garbage", "", "", FALSE, ""),
       LField(FALSE, "string", "n", ""),
       LClose >>

\* A file with a message that has a field of its own type
NodeLines ==
    << LPackage("node"),
       LMessage("Node"),
       LField(FALSE, "Node", "name", ""),
       LClose >>

Files ==
    << [k |-> "proto/core.proto", v |-> CoreLines],
       [k |-> "proto/core2.proto", v |-> Core2Lines],
       [k |-> "proto/base.proto", v |-> BaseLines],
       [k |-> "proto/ui.proto", v |-> UiLines],
       [k |-> "proto/loop.proto", v |-> LoopLines],
       [k |-> "proto/ping.proto", v |-> PingLines],
       [k |-> "proto/pong.proto", v |-> PongLines],
       [k |-> "proto/bad.proto", v |-> BadLines],
       [k |-> "proto/node.proto", v |-> NodeLines] >>

FileExists(filename) == \E i \in 1..Len(Files) : Files[i].k = filename
FileLines(filename) == Files[CHOOSE i \in 1..Len(Files) : Files[i].k = filename].v

\* field.startswith('proto'), over the import paths of the model
StartsWithProto(field) ==
    field \in {Files[i].k : i \in 1..Len(Files)} \cup {"proto/missing.proto"}

\* The object state ProtoFile.__init__ sets up before it parses; raised is
\* "" or the name of the exception that ended the parse.
NewProtoFile ==
    [go_package |-> None,
     package |-> None,
     imported_packages |-> PyDict(<<>>),
     structure |-> PyOrderedDict(<<>>),
     is_oneof_block |-> FALSE,
     is_enum_block |-> FALSE,
     enum_name |-> None,
     message_block |-> None,
     message_names_path |-> <<>>,
     raised |-> ""]

Raise(self, exception) == [self EXCEPT !.raised = exception]

\* The mapping key of a package name (None is a key of its own).
PackageKey(package) == IF package = None THEN "None" ELSE package.s

\* merge_proto_file in which a name both files declare keeps the earlier
\* declaration
merge_keeping_earlier(self, proto_file) ==
    [self EXCEPT !.structure = Update(proto_file.structure, self.structure),
                 !.imported_packages =
                     Update(proto_file.imported_packages, self.imported_packages)]

merge_proto_file(self, proto_file) ==
    [self EXCEPT !.structure = Update(self.structure, proto_file.structure),
                 !.imported_packages =
                     Update(self.imported_packages, proto_file.imported_packages)]

\* target = target[name] for every name of the path
RECURSIVE Walk(_, _)
Walk(target, path) ==
    IF path = <<>> THEN target ELSE Walk(Get(target, Head(path)), Tail(path))

get_current_message_block(self) ==
    IF self.message_block = None THEN None
    ELSE Walk(self.message_block, self.message_names_path)

\* The tree with the block at the end of the path replaced: the effect of
\* mutating the object __get_current_message_block returned.
RECURSIVE ReplaceAt(_, _, _)
ReplaceAt(tree, path, block) ==
    IF path = <<>> THEN block
    ELSE Put(tree, Head(path), ReplaceAt(Get(tree, Head(path)), Tail(path), block))

SetCurrentBlock(self, block) ==
    [self EXCEPT !.message_block = ReplaceAt(@, self.message_names_path, block)]

NewScope == PyDict(<< [k |-> FIELDS_KEY, v |-> PyOrderedDict(<<>>)] >>)

add_message(self, name) ==
    IF self.message_block = None
    THEN [self EXCEPT !.message_block = PyDict(<< [k |-> name, v |-> NewScope] >>),
                      !.message_names_path = Append(self.message_names_path, name)]
    ELSE LET target == get_current_message_block(self)
         IN [SetCurrentBlock(self, Put(target, name, NewScope))
                EXCEPT !.message_names_path = Append(self.message_names_path, name)]

add_enum(self, name) ==
    LET s == [self EXCEPT !.is_enum_block = TRUE, !.enum_name = PyStr(name)]
        block == get_current_message_block(s)
    IN IF block = None
       THEN [s EXCEPT !.structure = Put(s.structure, name, EnumField(name))]
       ELSE SetCurrentBlock(s, Put(block, name, EnumField(name)))

AppendValue(field, value) == [field EXCEPT !.e.values = Append(field.e.values, value)]

set_enum_value(self, value) ==
    LET block == get_current_message_block(self)
        holder == IF block = None THEN self.structure ELSE block
        name == PackageKey(self.enum_name)
    IN IF ~Has(holder, name) THEN Raise(self, "KeyError")
       ELSE IF ~IsEnumField(Get(holder, name)) THEN Raise(self, "AttributeError")
       ELSE IF block = None
       THEN [self EXCEPT !.structure =
                             Put(self.structure, name, AppendValue(Get(holder, name), value))]
       ELSE SetCurrentBlock(self, Put(block, name, AppendValue(Get(block, name), value)))

\* __close_block that pops a level of the path before it looks at the oneof
\* flag
close_block_pop_first(self) ==
    IF self.is_enum_block
    THEN [self EXCEPT !.is_enum_block = FALSE, !.enum_name = None]
    ELSE IF Len(self.message_names_path) > 1
    THEN [self EXCEPT !.message_names_path = SubSeq(@, 1, Len(@) - 1)]
    ELSE IF self.is_oneof_block
    THEN [self EXCEPT !.is_oneof_block = FALSE]
    ELSE IF self.message_names_path = <<>>
    THEN Raise(self, "IndexError")
    ELSE [self EXCEPT !.structure =
                          Put(self.structure, self.message_names_path[1],
                              Get(self.message_block, self.message_names_path[1])),
                      !.message_block = None,
                      !.message_names_path = <<>>]

close_block(self) ==
    IF self.is_enum_block
    THEN [self EXCEPT !.is_enum_block = FALSE, !.enum_name = None]
    ELSE IF self.is_oneof_block
    THEN [self EXCEPT !.is_oneof_block = FALSE]
    ELSE IF Len(self.message_names_path) > 1
    THEN [self EXCEPT !.message_names_path = SubSeq(@, 1, Len(@) - 1)]
    ELSE IF self.message_names_path = <<>>
    THEN Raise(self, "IndexError")
    ELSE [self EXCEPT !.structure =
                          Put(self.structure, self.message_names_path[1],
                              Get(self.message_block, self.message_names_path[1])),
                      !.message_block = None,
                      !.message_names_path = <<>>]

add_field(self, name, field) ==
    IF self.message_block = None THEN self
    ELSE LET block == get_current_message_block(self)
         IN IF ~IsMapping(Get(block, FIELDS_KEY)) THEN Raise(self, "TypeError")
            ELSE SetCurrentBlock(self, Put(block, FIELDS_KEY,
                                           Put(Get(block, FIELDS_KEY), name, field)))

\* The number of ProtoFile() calls that fit on the interpreter's call
\* stack one inside the other, after the call that starts the parse
MaxDepth == 3

RECURSIVE ProtoFile(_, _)
RECURSIVE parse_file(_, _, _)
RECURSIVE parse_line(_, _, _)
RECURSIVE add_import_field(_, _, _)

\* __add_import_field that goes on when the imported source did not parse
add_import_field_lenient(self, field, depth) ==
    IF ~StartsWithProto(field) THEN self
    ELSE LET proto_module == ProtoFile(field, depth + 1)
             key == PackageKey(proto_module.package)
         IN IF proto_module.raised # "" THEN self
            ELSE IF ~Has(self.imported_packages, key)
            THEN [self EXCEPT !.imported_packages = Put(@, key, proto_module)]
            ELSE [self EXCEPT !.imported_packages =
                      Put(@, key, merge_proto_file(Get(@, key), proto_module))]

\* depth is the number of ProtoFile() calls the call is inside of; the
\* call that does not fit on the stack raises RecursionError.
add_import_field(self, field, depth) ==
    IF ~StartsWithProto(field) THEN self
    ELSE LET proto_module == ProtoFile(field, depth + 1)
             key == PackageKey(proto_module.package)
         IN IF proto_module.raised # "" THEN Raise(self, proto_module.raised)
            ELSE IF ~Has(self.imported_packages, key)
            THEN [self EXCEPT !.imported_packages = Put(@, key, proto_module)]
            ELSE [self EXCEPT !.imported_packages =
                      Put(@, key, merge_proto_file(Get(@, key), proto_module))]

parse_line(self, line, depth) ==
    CASE line.kind = "option" -> [self EXCEPT !.go_package = PyStr(line.name)]
      [] line.kind = "package" -> [self EXCEPT !.package = PyStr(line.name)]
      [] line.kind = "import" -> add_import_field(self, line.name, depth)
      [] line.kind = "message" -> add_message(self, line.name)
      [] line.kind = "enum" -> add_enum(self, line.name)
      [] line.kind = "oneof" -> [self EXCEPT !.is_oneof_block = TRUE]
      [] line.kind = "close" -> close_block(self)
      [] line.kind \in {"comment", "blank"} -> self
      [] OTHER ->
           IF self.is_enum_block
           THEN IF line.shape = "reserved" THEN self
                ELSE IF line.shape # "enum_value" THEN Raise(self, "AttributeError")
                ELSE set_enum_value(self, line.name)
           ELSE IF self.message_block # None
           THEN IF line.shape # "field" THEN Raise(self, "AttributeError")
                ELSE add_field(self, line.name,
                               MessageField(line.field_type, line.repeated,
                                            EndsWithRequired(line.suffix)))
           ELSE self

\* for line in read: self.__parse_line(line), until a line raises
parse_file(self, lines, depth) ==
    IF lines = <<>> \/ self.raised # "" THEN self
    ELSE parse_file(parse_line(self, Head(lines), depth), Tail(lines), depth)

ProtoFile(filename, depth) ==
    IF depth > MaxDepth THEN Raise(NewProtoFile, "RecursionError")
    ELSE IF ~FileExists(filename) THEN Raise(NewProtoFile, "IOError")
    ELSE parse_file(NewProtoFile, FileLines(filename), depth)

\* '.' in field_type, over the type names of the model
HasDot(field_type) ==
    field_type \in {"core.Icon", "core.Kind", "core.Missing", "map<string, core.Icon>", "main.X",
                    "node.Node",
                    "google.protobuf.StringValue", "google.protobuf.Int32Value",
                    "google.protobuf.Int64Value", "google.protobuf.BoolValue"}

\* field_type.split('.', 1), for a type name with a dot
SplitDot(field_type) ==
    CASE field_type = "core.Icon" -> <<"core", "Icon">>
      [] field_type = "core.Kind" -> <<"core", "Kind">>
      [] field_type = "core.Missing" -> <<"core", "Missing">>
      [] field_type = "main.X" -> <<"main", "X">>
      [] field_type = "node.Node" -> <<"node", "Node">>
      [] field_type = "map<string, core.Icon>" -> <<"map<string, core", "Icon>">>
      [] field_type = "google.protobuf.StringValue" -> <<"google", "protobuf.StringValue">>
      [] field_type = "google.protobuf.Int32Value" -> <<"google", "protobuf.Int32Value">>
      [] field_type = "google.protobuf.Int64Value" -> <<"google", "protobuf.Int64Value">>
      [] field_type = "google.protobuf.BoolValue" -> <<"google", "protobuf.BoolValue">>

has_in_imports(self, field_type) ==
    IF ~HasDot(field_type) THEN FALSE
    ELSE LET pkg == SplitDot(field_type)[1]
             msg == SplitDot(field_type)[2]
         IN Has(self.imported_packages, pkg)
            /\ Has(Get(self.imported_packages, pkg).structure, msg)

\* "" when get_import_package returns, else the exception it raises
get_import_package_raises(self, field_type) ==
    IF ~HasDot(field_type) THEN "ValueError"
    ELSE IF ~Has(self.imported_packages, SplitDot(field_type)[1]) THEN "KeyError"
    ELSE ""

get_import_package(self, field_type) ==
    Get(self.imported_packages, SplitDot(field_type)[1])

\* "" when get_import_package_as_structure returns, else the exception
get_import_package_as_structure_raises(self, field_type) ==
    IF get_import_package_raises(self, field_type) # ""
    THEN get_import_package_raises(self, field_type)
    ELSE IF ~Has(get_import_package(self, field_type).structure, SplitDot(field_type)[2])
    THEN "KeyError"
    ELSE ""

get_import_package_as_structure(self, field_type) ==
    Get(get_import_package(self, field_type).structure, SplitDot(field_type)[2])

\* ------------------------------------------------------------------------
\* proto_json.py: ProtoJson
\* ------------------------------------------------------------------------

\* get_default_value_for_field with the required flag ignored
default_value_as_required(field) ==
    IF InList(field.f.type, STRING_TYPES) THEN PyStr("String")
    ELSE IF InList(field.f.type, INT_TYPES) THEN PyInt(100)
    ELSE IF InList(field.f.type, FLOAT_TYPES) THEN PyFloat(10050)
    ELSE IF InList(field.f.type, BOOL_TYPES) THEN PyBool(TRUE)
    ELSE None

get_default_value_for_field(field) ==
    IF InList(field.f.type, STRING_TYPES)
    THEN (IF field.f.is_required THEN PyStr("String") ELSE PyStr("Optional string"))
    ELSE IF InList(field.f.type, INT_TYPES)
    THEN (IF field.f.is_required THEN PyInt(100) ELSE PyInt(50))
    ELSE IF InList(field.f.type, FLOAT_TYPES)
    THEN (IF field.f.is_required THEN PyFloat(10050) ELSE PyFloat(5025))
    ELSE IF InList(field.f.type, BOOL_TYPES)
    THEN PyBool(field.f.is_required)
    ELSE None

get_default_value_for_enum(enum_field, field) ==
    IF enum_field.e.values # <<>>
    THEN PyStr(enum_field.e.values[1])
    ELSE (IF field.f.is_required THEN PyStr("Enum") ELSE PyStr("Optional enum"))

\* The lookup of __get_object ("field.type in structure_field", else
\* "field.type in proto_file.structure"): the entry found and where.
GeneratorLookup(proto_file, structure_field, field) ==
    IF Has(structure_field, field.f.type)
    THEN [origin |-> "scope", target |-> Get(structure_field, field.f.type)]
    ELSE IF Has(proto_file.structure, field.f.type)
    THEN [origin |-> "file", target |-> Get(proto_file.structure, field.f.type)]
    ELSE [origin |-> "none", target |-> None]

\* The branch __get_object takes for a field: how the generator resolves
\* the field's declared type.
GeneratorResolve(proto_file, structure_field, field) ==
    IF get_default_value_for_field(field) # None
    THEN [category |-> "scalar", origin |-> "none", target |-> None]
    ELSE IF has_in_imports(proto_file, field.f.type)
    THEN [category |-> "message", origin |-> "import",
          target |-> get_import_package_as_structure(proto_file, field.f.type)]
    ELSE LET found == GeneratorLookup(proto_file, structure_field, field)
             next_field == found.target
         IN IF next_field # None /\ ~IsMessageField(next_field) /\ ~IsEnumField(next_field)
            THEN [category |-> "message", origin |-> found.origin, target |-> next_field]
            ELSE IF IsEnumField(next_field)
            THEN [category |-> "enum", origin |-> found.origin, target |-> next_field]
            ELSE [category |-> "unresolved", origin |-> "none", target |-> None]

RECURSIVE as_object(_, _, _)
RECURSIVE get_object(_, _, _)
RECURSIVE get_object_loop(_, _, _, _, _)

\* [result, raised]: the value __get_object makes for a field before the
\* is_repeated wrap, by the branch taken. depth is the number of
\* __get_object calls the call is inside of.
GeneratedValue(proto_file, field, how, depth) ==
    CASE how.category = "scalar" ->
           [result |-> get_default_value_for_field(field), raised |-> ""]
      [] how.category = "message" /\ how.origin = "import" ->
           as_object(get_import_package(proto_file, field.f.type),
                     SplitDot(field.f.type)[2], depth + 1)
      [] how.category = "message" /\ how.origin # "import" ->
           get_object(proto_file, how.target, depth + 1)
      [] how.category = "enum" ->
           [result |-> get_default_value_for_enum(how.target, field), raised |-> ""]
      [] OTHER -> [result |-> PyDict(<<>>), raised |-> ""]

\* result[field_name] = made, wrapped in a list when the field is repeated
PutGenerated(out, field_name, field, made) ==
    IF made.raised # "" THEN [out EXCEPT !.raised = made.raised]
    ELSE [out EXCEPT !.result =
              Put(@, field_name,
                  IF field.f.is_repeated THEN PyList(<<made.result>>) ELSE made.result)]

\* One iteration of the loop of __get_object; out is [result, raised].
get_object_field(proto_file, structure_field, out, field_name, field, depth) ==
    IF ~IsMessageField(field) THEN [out EXCEPT !.raised = "AttributeError"]
    ELSE PutGenerated(out, field_name, field,
                      GeneratedValue(proto_file, field,
                                     GeneratorResolve(proto_file, structure_field, field),
                                     depth))

\* The loop of __get_object over the remaining (field_name, field) pairs
get_object_loop(proto_file, structure_field, items, out, depth) ==
    IF items = <<>> \/ out.raised # "" THEN out
    ELSE get_object_loop(proto_file, structure_field, Tail(items),
                         get_object_field(proto_file, structure_field, out,
                                          Head(items).k, Head(items).v, depth),
                         depth)

\* __get_object that gives {} in place of a call nested deeper than the
\* recursion limit
get_object_cut_at_limit(proto_file, structure_field, depth) ==
    LET empty == [result |-> PyOrderedDict(<<>>), raised |-> ""]
    IN IF depth > MaxDepth THEN [result |-> PyDict(<<>>), raised |-> ""]
       ELSE IF ~IsMapping(structure_field) THEN [empty EXCEPT !.raised = "TypeError"]
       ELSE IF ~Has(structure_field, FIELDS_KEY) THEN [empty EXCEPT !.raised = "KeyError"]
       ELSE IF ~IsMapping(Get(structure_field, FIELDS_KEY))
       THEN [empty EXCEPT !.raised = "AttributeError"]
       ELSE get_object_loop(proto_file, structure_field,
                            Get(structure_field, FIELDS_KEY).v, empty, depth)

\* A call nested deeper than the interpreter's recursion limit (MaxDepth
\* calls in the model) raises RecursionError.
get_object(proto_file, structure_field, depth) ==
    LET empty == [result |-> PyOrderedDict(<<>>), raised |-> ""]
    IN IF depth > MaxDepth THEN [result |-> None, raised |-> "RecursionError"]
       ELSE IF ~IsMapping(structure_field) THEN [empty EXCEPT !.raised = "TypeError"]
       ELSE IF ~Has(structure_field, FIELDS_KEY) THEN [empty EXCEPT !.raised = "KeyError"]
       ELSE IF ~IsMapping(Get(structure_field, FIELDS_KEY))
       THEN [empty EXCEPT !.raised = "AttributeError"]
       ELSE get_object_loop(proto_file, structure_field,
                            Get(structure_field, FIELDS_KEY).v, empty, depth)

as_object(proto_file, root_field_name, depth) ==
    IF ~Has(proto_file.structure, root_field_name)
    THEN [result |-> None, raised |-> "KeyError"]
    ELSE get_object(proto_file, Get(proto_file.structure, root_field_name), depth)

\* The model as as_object leaves it: __get_object, the two default-value
\* methods and __get_import_package_as_object read proto_file, its scopes,
\* descriptors and imports, and assign to fresh containers only.
as_object_model(proto_file, root_field_name) == proto_file

\* ------------------------------------------------------------------------
\* proto_validator.py: ProtoValidator
\* ------------------------------------------------------------------------

\* A message text, by its format string and the values formatted into it.
Msg(kind, name, expected, from, value) ==
    [t |-> "str",
     text |-> [kind |-> kind, name |-> name, expected |-> expected, from |-> from,
               value |-> value]]

\* The validator while validate_json runs: errors is self.__errors (an
\* entry [path, msg] is the string "<path>: <msg>", path the list of the
\* segments joined by " > "), stdout the printed lines, raised "" or the
\* exception that ended the call, visits the record of the
\* __validate_structure calls that got past the type check of test_data.
NewValidator == [errors |-> <<>>, stdout |-> <<>>, raised |-> "", visits |-> <<>>]

RECURSIVE add_errors(_, _, _)
RECURSIVE add_errors_list(_, _, _)

add_errors(st, test_path, errors) ==
    IF errors = None THEN st
    ELSE IF errors.t = "str"
    THEN [st EXCEPT !.errors = Append(@, [path |-> test_path, msg |-> errors.text])]
    ELSE IF errors.t = "list"
    THEN add_errors_list(st, test_path, errors.v)
    ELSE st

add_errors_list(st, test_path, list) ==
    IF list = <<>> THEN st
    ELSE add_errors_list(add_errors(st, test_path, Head(list)), test_path, Tail(list))

\* __validate_base_type that takes a bool for an integer (as isinstance does)
validate_base_type_isinstance(proto_type, test_value) ==
    LET wrong == Msg("wrong type", "", proto_type, "", test_value)
    IN IF InList(proto_type, STRING_TYPES) /\ test_value.t \notin {"str", "unicode"}
       THEN wrong
       ELSE IF InList(proto_type, FLOAT_TYPES) /\ test_value.t \notin {"float"}
       THEN wrong
       ELSE IF InList(proto_type, INT_TYPES) /\ test_value.t \notin {"int", "long", "bool"}
       THEN wrong
       ELSE IF InList(proto_type, BOOL_TYPES) /\ test_value.t \notin {"bool"}
       THEN wrong
       ELSE None

validate_base_type(proto_type, test_value) ==
    LET wrong == Msg("wrong type", "", proto_type, "", test_value)
    IN IF InList(proto_type, STRING_TYPES) /\ test_value.t \notin {"str", "unicode"}
       THEN wrong
       ELSE IF InList(proto_type, FLOAT_TYPES) /\ test_value.t \notin {"float"}
       THEN wrong
       ELSE IF InList(proto_type, INT_TYPES) /\ test_value.t \notin {"int", "long"}
       THEN wrong
       ELSE IF InList(proto_type, BOOL_TYPES) /\ test_value.t \notin {"bool"}
       THEN wrong
       ELSE None

validate_multiply_base_types(proto_type, test_value) ==
    PyList([i \in 1..Len(test_value.v) |-> validate_base_type(proto_type, test_value.v[i])])

\* test_value in enum_field.values (the values are strings)
InEnumValues(enum_field, test_value) ==
    test_value.t = "str" /\ InList(test_value.s, enum_field.e.values)

validate_enum_type(enum_field, test_value) ==
    IF ~InEnumValues(enum_field, test_value)
    THEN Msg("unknown value", "", enum_field.e.name, "", test_value)
    ELSE None

validate_multiply_enum_types(enum_field, test_value) ==
    PyList([i \in 1..Len(test_value.v) |-> validate_enum_type(enum_field, test_value.v[i])])

\* The keys __validate_and_del_excess deletes, in the order of test_data
ExcessKeys(proto_fields, test_data) ==
    SelectSeq(Keys(test_data), LAMBDA test_key : ~Has(proto_fields, test_key))

\* __validate_and_del_excess with an errors list that stays empty
excess_deleted_not_reported(proto_fields, test_data) ==
    [errors |-> PyList(<<>>),
     test_data |-> [test_data EXCEPT !.v = SelectSeq(@, LAMBDA p : Has(proto_fields, p.k))]]

\* __validate_and_del_excess without the loop over keys_to_del
excess_reported_not_deleted(proto_fields, test_data) ==
    LET keys_to_del == ExcessKeys(proto_fields, test_data)
    IN [errors |-> PyList([i \in 1..Len(keys_to_del) |->
                              Msg("is excess", keys_to_del[i], "", "", None)]),
        test_data |-> test_data]

\* [errors, test_data]: the list returned and test_data after the deletions
validate_and_del_excess(proto_fields, test_data) ==
    LET keys_to_del == ExcessKeys(proto_fields, test_data)
    IN [errors |-> PyList([i \in 1..Len(keys_to_del) |->
                              Msg("is excess", keys_to_del[i], "", "", None)]),
        test_data |-> [test_data EXCEPT !.v =
                          SelectSeq(@, LAMBDA p : Has(proto_fields, p.k))]]

\* __validate_required without the test of is_required
required_whenever_absent(proto_fields, test_data) ==
    LET missing == SelectSeq(proto_fields.v, LAMBDA p : ~Has(test_data, p.k))
    IN PyList([i \in 1..Len(missing) |->
                  Msg("is required", missing[i].k, missing[i].v.f.type, "", None)])

validate_required(proto_fields, test_data) ==
    LET missing == SelectSeq(proto_fields.v,
                             LAMBDA p : p.v.f.is_required /\ ~Has(test_data, p.k))
    IN PyList([i \in 1..Len(missing) |->
                  Msg("is required", missing[i].k, missing[i].v.f.type, "", None)])

\* The value group of `map<\w+, ?(?P<value>[\w.]+)>` on a map type
MapValueType(proto_type) ==
    CASE proto_type = "map<string, int32>" -> "int32"
      [] proto_type = "map<string, X>" -> "X"
      [] proto_type = "map<string, core.Icon>" -> "core.Icon"

\* bool(x) of a schema entry or None
Truthy(x) == x # None /\ (IsMapping(x) => x.v # <<>>)

\* The two lookups of __validate_structure ("in proto_scope", then "in
\* proto_file.structure", the second overriding the first).
ValidatorLookup(proto_file, proto_scope, test_message) ==
    LET first == IF Has(proto_scope, test_message.f.type)
                 THEN [origin |-> "scope",
                       target |-> Get(proto_scope, test_message.f.type)]
                 ELSE [origin |-> "none", target |-> None]
    IN IF Has(proto_file.structure, test_message.f.type)
       THEN [origin |-> "file", target |-> Get(proto_file.structure, test_message.f.type)]
       ELSE first

\* The branch __validate_structure takes for a field: how the validator
\* resolves the field's declared type.
ValidatorResolve(proto_file, proto_scope, test_message) ==
    IF test_message.f.is_base_type
    THEN [category |-> "scalar", origin |-> "none", target |-> None]
    ELSE IF test_message.f.is_map
    THEN [category |-> "map", origin |-> "none", target |-> None]
    ELSE LET found == ValidatorLookup(proto_file, proto_scope, test_message)
             scoped_proto_type == found.target
         IN IF IsEnumField(scoped_proto_type)
            THEN [category |-> "enum", origin |-> found.origin, target |-> scoped_proto_type]
            ELSE IF Truthy(scoped_proto_type)
            THEN [category |-> "message", origin |-> found.origin,
                  target |-> scoped_proto_type]
            ELSE IF has_in_imports(proto_file, test_message.f.type)
            THEN [category |-> "message", origin |-> "import",
                  target |-> get_import_package_as_structure(proto_file,
                                                             test_message.f.type)]
            ELSE [category |-> "unresolved", origin |-> "none", target |-> None]

RECURSIVE validate_structure(_, _, _, _, _, _)
RECURSIVE validate_multiply_structures(_, _, _, _, _, _)
RECURSIVE validate_map_items(_, _, _, _, _, _)
RECURSIVE validate_items(_, _, _, _, _, _)

\* The map entry i after the recursive __validate_structure call sub
MapEntryDone(out, i, sub) ==
    [out EXCEPT !.st = sub.st, !.test_value.v[i].v = sub.test_data]

\* One iteration of the loop of __validate_map_type; out is
\* [st, test_value, errors], errors the local list.
validate_map_entry(out, proto_file, proto_type, test_path, i, map_value_type, key, value) ==
    IF is_base_type(map_value_type)
    THEN (IF validate_base_type(map_value_type, value) # None
          THEN [out EXCEPT !.errors =
                    Append(@, Msg("wrong value's type for key", key, map_value_type,
                                  proto_type, value))]
          ELSE out)
    ELSE IF get_import_package_as_structure_raises(proto_file, map_value_type) # ""
    THEN [out EXCEPT !.st.raised =
              get_import_package_as_structure_raises(proto_file, map_value_type)]
    ELSE MapEntryDone(out, i,
                      validate_structure(
                          out.st,
                          get_import_package(proto_file, map_value_type),
                          get_import_package_as_structure(proto_file, map_value_type),
                          value, Append(test_path, key), map_value_type))

\* The loop of __validate_map_type over test_value.items() from entry i on
validate_map_items(out, proto_file, proto_type, test_path, i, map_value_type) ==
    IF i > Len(out.test_value.v) \/ out.st.raised # "" THEN out
    ELSE validate_map_items(
             validate_map_entry(out, proto_file, proto_type, test_path, i, map_value_type,
                                out.test_value.v[i].k, out.test_value.v[i].v),
             proto_file, proto_type, test_path, i + 1, map_value_type)

\* [st, test_value, errors]: errors is the list __validate_map_type returns
validate_map_type(st, proto_file, proto_type, test_value, test_path) ==
    IF test_value.t # "dict"
    THEN [st |-> st, test_value |-> test_value,
          errors |-> <<Msg("not a valid map", "", proto_type, "", test_value)>>]
    ELSE validate_map_items([st |-> st, test_value |-> test_value, errors |-> <<>>],
                            proto_file, proto_type, test_path, 1,
                            MapValueType(proto_type))

\* The list element i after the __validate_structure call sub
ElementDone(out, i, sub) ==
    [out EXCEPT !.st = sub.st, !.test_data.v[i] = sub.test_data]

\* out is [st, test_data]; test_data is the list, validated from element i on
validate_multiply_structures(out, proto_file, proto_scope, test_path, scope_name, i) ==
    IF i > Len(out.test_data.v) \/ out.st.raised # "" THEN out
    ELSE validate_multiply_structures(
             ElementDone(out, i,
                         validate_structure(out.st, proto_file, proto_scope,
                                            out.test_data.v[i], test_path, scope_name)),
             proto_file, proto_scope, test_path, scope_name, i + 1)

\* self.__add_errors(new_path, errors) after __validate_map_type returned m
MapDone(new_path, m) ==
    [st |-> IF m.st.raised # "" THEN m.st ELSE add_errors(m.st, new_path, PyList(m.errors)),
     test_value |-> m.test_value]

StructureDone(sub) == [st |-> sub.st, test_value |-> sub.test_data]

\* [st, test_value]: the validator and the value after the body of the loop
\* of __validate_structure for one (test_key, test_value), by the branch
\* how the field's type resolves to.
validate_field(st, proto_file, test_path, test_key, test_value, test_message, new_path, how) ==
    IF test_message.f.is_repeated /\ test_value.t # "list"
    THEN [st |-> add_errors(st, new_path,
                            Msg("expected array", "", test_message.f.type, "", test_value)),
          test_value |-> test_value]
    ELSE IF how.category = "scalar"
    THEN [st |-> add_errors(st, new_path,
                            IF test_message.f.is_repeated
                            THEN validate_multiply_base_types(test_message.f.type, test_value)
                            ELSE validate_base_type(test_message.f.type, test_value)),
          test_value |-> test_value]
    ELSE IF how.category = "map"
    THEN MapDone(new_path,
                 validate_map_type(st, proto_file, test_message.f.type, test_value, new_path))
    ELSE IF how.category = "enum"
    THEN [st |-> add_errors(st, new_path,
                            IF test_message.f.is_repeated
                            THEN validate_multiply_enum_types(how.target, test_value)
                            ELSE validate_enum_type(how.target, test_value)),
          test_value |-> test_value]
    ELSE IF how.category = "message"
    THEN StructureDone(
             IF test_message.f.is_repeated
             THEN validate_multiply_structures(
                      [st |-> st, test_data |-> test_value],
                      IF how.origin = "import"
                      THEN get_import_package(proto_file, test_message.f.type)
                      ELSE proto_file,
                      how.target, new_path, test_message.f.type, 1)
             ELSE validate_structure(
                      st,
                      IF how.origin = "import"
                      THEN get_import_package(proto_file, test_message.f.type)
                      ELSE proto_file,
                      how.target, test_value, new_path, test_message.f.type))
    ELSE [st |-> [st EXCEPT !.stdout = Append(@, [path |-> test_path, field |-> test_key])],
          test_value |-> test_value]

\* Whether the body reaches the print at its end
ReachesPrint(test_message, test_value, how) ==
    how.category = "unresolved" /\ ~(test_message.f.is_repeated /\ test_value.t # "list")

\* The entry i of test_data after the body of the loop
ItemDone(out, i, test_key, printed, after) ==
    [st |-> after.st,
     test_data |-> [out.test_data EXCEPT !.v[i].v = after.test_value],
     unresolved |-> IF printed THEN Append(out.unresolved, test_key) ELSE out.unresolved]

validate_item(out, proto_file, test_path, i, test_key, test_value, test_message, how) ==
    ItemDone(out, i, test_key, ReachesPrint(test_message, test_value, how),
             validate_field(out.st, proto_file, test_path, test_key, test_value,
                            test_message, Append(test_path, test_key), how))

\* The loop of __validate_structure over test_data.items() from entry i on;
\* out is [st, test_data, unresolved], unresolved the keys that reached the
\* print at the end of the body.
validate_items(out, proto_file, proto_scope, proto_fields, test_path, i) ==
    IF i > Len(out.test_data.v) \/ out.st.raised # "" THEN out
    ELSE IF ~Has(proto_fields, out.test_data.v[i].k)
    THEN [out EXCEPT !.st.raised = "KeyError"]
    ELSE validate_items(
             validate_item(out, proto_file, test_path, i,
                           out.test_data.v[i].k, out.test_data.v[i].v,
                           Get(proto_fields, out.test_data.v[i].k),
                           ValidatorResolve(proto_file, proto_scope,
                                            Get(proto_fields, out.test_data.v[i].k))),
             proto_file, proto_scope, proto_fields, test_path, i + 1)

\* The record of one __validate_structure call, added when the call ends
Visited(test_path, proto_fields, test_data, excess, required, done) ==
    [st |-> [done.st EXCEPT !.visits =
                Append(@, [path |-> test_path,
                           proto_fields |-> proto_fields,
                           before |-> test_data,
                           after |-> done.test_data,
                           excess |-> excess.errors.v,
                           required |-> required.v,
                           unresolved |-> done.unresolved,
                           raised |-> done.st.raised])],
     test_data |-> done.test_data]

\* __validate_structure from the __validate_required call on
validate_remaining(st, proto_file, proto_scope, proto_fields, test_data, test_path, excess, required) ==
    Visited(test_path, proto_fields, test_data, excess, required,
            validate_items([st |-> add_errors(add_errors(st, test_path, excess.errors),
                                              test_path, required),
                            test_data |-> excess.test_data,
                            unresolved |-> <<>>],
                           proto_file, proto_scope, proto_fields, test_path, 1))

\* __validate_structure after __validate_and_del_excess returned excess
validate_stripped(st, proto_file, proto_scope, proto_fields, test_data, test_path, excess) ==
    IF \E j \in 1..Len(proto_fields.v) : ~IsMessageField(proto_fields.v[j].v)
    THEN [st |-> [add_errors(st, test_path, excess.errors) EXCEPT !.raised = "AttributeError"],
          test_data |-> excess.test_data]
    ELSE validate_remaining(st, proto_file, proto_scope, proto_fields, test_data, test_path,
                            excess, validate_required(proto_fields, excess.test_data))

\* [st, test_data]: the validator after the call and test_data as the call
\* leaves it (the excess keys deleted, in this structure and below it).
validate_structure(st, proto_file, proto_scope, test_data, test_path, scope_name) ==
    IF test_data.t # "dict"
    THEN [st |-> add_errors(st, test_path,
                            Msg("expected structure", "", scope_name, "", test_data)),
          test_data |-> test_data]
    ELSE IF ~IsMapping(proto_scope)
    THEN [st |-> [st EXCEPT !.raised = "TypeError"], test_data |-> test_data]
    ELSE IF ~Has(proto_scope, FIELDS_KEY)
    THEN [st |-> [st EXCEPT !.raised = "KeyError"], test_data |-> test_data]
    ELSE IF ~IsMapping(Get(proto_scope, FIELDS_KEY))
    THEN [st |-> [st EXCEPT !.raised = "AttributeError"], test_data |-> test_data]
    ELSE validate_stripped(st, proto_file, proto_scope, Get(proto_scope, FIELDS_KEY),
                           test_data, test_path,
                           validate_and_del_excess(Get(proto_scope, FIELDS_KEY), test_data))

\* [has_errors, errors, test_data, raised, stdout, visits]: what the call
\* returns, the document it leaves, and what it did on the way.
Returned(done) ==
    [has_errors |-> done.st.errors # <<>>,
     errors |-> done.st.errors,
     test_data |-> done.test_data,
     raised |-> done.st.raised,
     stdout |-> done.st.stdout,
     visits |-> done.st.visits]

validate_json(proto_file, root_field_name, test_data) ==
    IF ~Has(proto_file.structure, root_field_name)
    THEN [has_errors |-> FALSE, errors |-> <<>>, test_data |-> test_data,
          raised |-> "KeyError", stdout |-> <<>>, visits |-> <<>>]
    ELSE Returned(validate_structure(NewValidator, proto_file,
                                     Get(proto_file.structure, root_field_name),
                                     test_data, <<root_field_name>>, root_field_name))

\* validate_json with `del proto_fields[key]` in place of `del test_data[key]`
\* at the root scope: the fields no key of the document names leave the model
validate_json_model_del_proto_fields(proto_file, root_field_name, test_data) ==
    IF /\ Has(proto_file.structure, root_field_name)
       /\ test_data.t = "dict"
       /\ IsMapping(Get(proto_file.structure, root_field_name))
       /\ Has(Get(proto_file.structure, root_field_name), FIELDS_KEY)
       /\ IsMapping(Get(Get(proto_file.structure, root_field_name), FIELDS_KEY))
    THEN [proto_file EXCEPT !.structure =
             Put(@, root_field_name,
                 Put(Get(@, root_field_name), FIELDS_KEY,
                     [Get(Get(@, root_field_name), FIELDS_KEY) EXCEPT !.v =
                         SelectSeq(@, LAMBDA p : Has(test_data, p.k))]))]
    ELSE proto_file

\* The model as validate_json leaves it: the only statements of the
\* validator that assign or delete are `del test_data[key]` and those on
\* self.__errors.
validate_json_model(proto_file, root_field_name, test_data) == proto_file

\* ------------------------------------------------------------------------
\* Schema sources and documents of the model
\* ------------------------------------------------------------------------

MaxWeight == 2
MaxCalls == 2
MaxParses == 2

TopDecls == {"none", "enum", "message"}
NestedDecls == {"none", "enum", "empty_enum", "message"}

\* A declaration of X before message M
TopLines(top) ==
    CASE top = "none" -> <<>>
      [] top = "enum" -> <<LEnum("X"), LEnumValue("BLUE"), LClose>>
      [] top = "message" ->
           <<LMessage("X"), LField(FALSE, "string", "n", "// required"), LClose>>

\* A declaration of X inside message M
NestedLines(nested) ==
    CASE nested = "none" -> <<>>
      [] nested = "enum" -> <<LEnum("X"), LEnumValue("RED"), LEnumValue("GREEN"), LClose>>
      [] nested = "empty_enum" -> <<LEnum("X"), LClose>>
      [] nested = "message" ->
           <<LMessage("X"), LField(FALSE, "int32", "n", "// required"), LClose>>

Source(top, nested, fields) ==
    <<LPackage("main"), LImport("proto/core.proto")>> \o TopLines(top)
        \o <<LMessage("M")>> \o NestedLines(nested) \o fields \o <<LClose>>

FieldTypes ==
    {"string", "int32", "float", "bool", "bytes", "X", "core.Icon", "core.Kind",
     "map<string, int32>", "map<string, X>", "map<string, core.Icon>"}

Suffixes == {"", "// required"}

FirstFields(types) ==
    {LField(rep, type, "name", suffix) : rep \in BOOLEAN, type \in types, suffix \in Suffixes}

SecondFields ==
    {LField(TRUE, "int32", "tags", ""), LField(FALSE, "string", "tags", "// required")}

\* The sources: every field type in a file that does not declare X, with
\* and without a second field, and the fields that name X under every
\* combination of a top-level and a nested declaration of X.
Sources ==
    {Source("none", "none", <<f>>) : f \in FirstFields(FieldTypes)}
    \cup {Source("none", "none", <<f, g>>) : f \in FirstFields(FieldTypes), g \in SecondFields}
    \cup {Source(top, nested, <<f>>) :
              top \in TopDecls, nested \in NestedDecls,
              f \in FirstFields({"X", "map<string, X>"})
                     \cup {LField(FALSE, "main.X", "name", "")}}

\* The sources of one field of every scalar type
ScalarSources ==
    {Source("none", "none", <<LField(rep, STRING_TYPES[i], "name", "")>>) :
         rep \in BOOLEAN, i \in 1..Len(STRING_TYPES)}
    \cup {Source("none", "none", <<LField(rep, INT_TYPES[i], "name", "")>>) :
              rep \in BOOLEAN, i \in 1..Len(INT_TYPES)}
    \cup {Source("none", "none", <<LField(rep, FLOAT_TYPES[i], "name", "")>>) :
              rep \in BOOLEAN, i \in 1..Len(FLOAT_TYPES)}
    \cup {Source("none", "none", <<LField(rep, BOOL_TYPES[i], "name", "")>>) :
              rep \in BOOLEAN, i \in 1..Len(BOOL_TYPES)}
    \cup {Source("none", "none", <<LField(rep, BYTES_TYPES[i], "name", "")>>) :
              rep \in BOOLEAN, i \in 1..Len(BYTES_TYPES)}

\* The sources with up to two import lines after a top-level enum
ImportPaths ==
    {"proto/core.proto", "proto/core2.proto", "proto/ui.proto", "proto/loop.proto",
     "proto/ping.proto", "proto/bad.proto", "proto/missing.proto",
     "google/protobuf/wrappers.proto"}

ImportLists ==
    {<<>>} \cup {<<LImport(a)>> : a \in ImportPaths}
           \cup {<<LImport(a), LImport(b)>> : a \in ImportPaths, b \in ImportPaths}

ImportSources ==
    {<<LPackage("main"), LEnum("E"), LEnumValue("E0"), LClose>> \o imports
         \o <<LMessage("M"), LField(FALSE, "core.Icon", "name", ""), LClose>> :
     imports \in ImportLists}

\* A source with blocks of every kind: a top-level enum, a message with a
\* nested message (that has a nested enum) and a oneof, a second message
Blocks(message_name, enum_name) ==
    << LPackage("main"),
       LEnum("Top"), LEnumValue("T0"), LClose,
       LMessage("M"),
       LField(FALSE, "string", "a", ""),
       LMessage(message_name),
       LField(FALSE, "string", "b", "// required"),
       LEnum(enum_name), LEnumValue("V0"),
       Line("other", "reserved", "", "", FALSE, ""),
       LEnumValue("V1"), LClose,
       LField(TRUE, enum_name, "c", ""),
       LOneof("o"),
       LField(FALSE, "string", "d", ""),
       LClose,
       LClose,
       LField(FALSE, message_name, "e", ""),
       LClose,
       LMessage("Z"),
       LField(FALSE, "Top", "t", ""),
       LClose >>

BlockNames == {<<"N", "E">>, <<"M", "E">>, <<"__fields__", "E">>, <<"N", "__fields__">>}

\* The lines put into a source where no such line belongs
Junk ==
    {Line("other", "garbage", "", "", FALSE, ""),
     Line("other", "reserved", "", "", FALSE, ""),
     LEnumValue("J0"),
     LField(FALSE, "string", "j", ""),
     LClose}

Insert(lines, i, line) == SubSeq(lines, 1, i) \o <<line>> \o SubSeq(lines, i + 1, Len(lines))

BlockSources ==
    {Blocks(names[1], names[2]) : names \in BlockNames}
    \cup {Insert(Blocks(names[1], names[2]), i, line) :
              names \in BlockNames, i \in 1..Len(Blocks("N", "E")), line \in Junk}

\* The sources of messages M, X (top-level or inside M) and Y that have a
\* field "name" of a scalar type or of the type of one of the three, of
\* the imported Node, or of a map to X; M has that field alone (Y then
\* refers to X), or that field and a second one of type Y.
ReferenceShapes == {"top", "nested"}

ReferenceFields ==
    {LField(FALSE, type, "name", "") : type \in {"string", "M", "X", "node.Node",
                                                   "map<string, X>"}}
    \cup {LField(TRUE, type, "name", "") : type \in {"M", "X"}}

ReferenceTags == <<LField(FALSE, "Y", "tags", "")>>

ReferenceSource(shape, field, tags, x_type, y_type) ==
    LET x_lines == <<LMessage("X"), LField(FALSE, x_type, "name", ""), LClose>>
    IN <<LPackage("main"), LImport("proto/node.proto")>>
         \o (IF shape = "top" THEN x_lines ELSE <<>>)
         \o <<LMessage("Y"), LField(FALSE, y_type, "name", ""), LClose>>
         \o <<LMessage("M")>>
         \o (IF shape = "nested" THEN x_lines ELSE <<>>)
         \o <<field>> \o tags \o <<LClose>>

ReferenceSources ==
    {ReferenceSource(shape, field, <<>>, x_type, "X") :
         shape \in ReferenceShapes, field \in ReferenceFields,
         x_type \in {"string", "M", "X", "Y"}}
    \cup {ReferenceSource(shape, LField(FALSE, type, "name", ""), ReferenceTags, x_type, y_type) :
              shape \in ReferenceShapes, type \in {"string", "X"},
              x_type \in {"string", "M", "X", "Y"}, y_type \in {"string", "X"}}

AllSources ==
    Sources \cup ScalarSources \cup ImportSources \cup BlockSources \cup ReferenceSources

\* JSON values by weight (the number of their nodes): ByWeight[w] is the
\* set of the values of weight w.
Atoms == {PyStr("RED"), PyInt(100)}
RootKeys == <<"name", "zz", "tags">>
InnerKeys == <<"zz", "n">>

\* The values of weight w a key takes: "zz" is the undeclared key
KeyValues(key, w, ByWeight) ==
    IF key = "zz" THEN (IF w = 1 THEN {PyBool(TRUE)} ELSE {}) ELSE ByWeight[w]

\* The [k, v] sequences over a subsequence of keys of total weight w
RECURSIVE PairSeqs(_, _, _)
PairSeqs(keys, w, ByWeight) ==
    IF keys = <<>> THEN (IF w = 0 THEN {<<>>} ELSE {})
    ELSE PairSeqs(Tail(keys), w, ByWeight)
         \cup UNION {{<<[k |-> Head(keys), v |-> x]>> \o rest :
                         x \in KeyValues(Head(keys), u, ByWeight),
                         rest \in PairSeqs(Tail(keys), w - u, ByWeight)} : u \in 1..w}

\* The sequences of values of total weight w
RECURSIVE ListSeqs(_, _)
ListSeqs(w, ByWeight) ==
    IF w = 0 THEN {<<>>}
    ELSE UNION {{<<x>> \o rest : x \in ByWeight[u], rest \in ListSeqs(w - u, ByWeight)} :
                   u \in 1..w}

RECURSIVE ValuesByWeight(_)
ValuesByWeight(w) ==
    IF w = 0 THEN <<>>
    ELSE LET below == ValuesByWeight(w - 1)
         IN Append(below,
                   (IF w = 1 THEN Atoms ELSE {})
                   \cup {PyDict(pairs) : pairs \in PairSeqs(InnerKeys, w - 1, below)}
                   \cup {PyList(list) : list \in ListSeqs(w - 1, below)})

\* The documents: the dictionaries over RootKeys of weight at most MaxWeight
Documents ==
    {PyDict(pairs) :
        pairs \in UNION {PairSeqs(RootKeys, w, ValuesByWeight(MaxWeight)) : w \in 0..MaxWeight}}

\* A value of every kind, and the documents with such a value, or a list of
\* values of the four scalar kinds, under "name"
ScalarValues ==
    {PyStr("RED"), PyInt(100), PyFloat(150), PyBool(TRUE), None, PyDict(<<>>), PyList(<<>>)}

RECURSIVE ScalarLists(_)
ScalarLists(n) ==
    IF n = 0 THEN {<<>>}
    ELSE ScalarLists(n - 1)
         \cup {Append(list, x) : list \in {l \in ScalarLists(n - 1) : Len(l) = n - 1},
                                  x \in {PyStr("RED"), PyInt(100), PyFloat(150), PyBool(TRUE)}}

ScalarDocuments ==
    {PyDict(<<[k |-> "name", v |-> x]>>) : x \in ScalarValues}
    \cup {PyDict(<<[k |-> "name", v |-> PyList(list)]>>) : list \in ScalarLists(MaxWeight)}

SmallDocuments ==
    {PyDict(<<>>), PyDict(<<[k |-> "name", v |-> PyDict(<<[k |-> "n", v |-> PyStr("RED")]>>)],
                            [k |-> "zz", v |-> PyBool(TRUE)]>>)}

\* The documents with "name" inside "name" inside "name", as objects and
\* as lists of objects
NestedDocuments ==
    {PyDict(<<[k |-> "name", v |->
                  PyDict(<<[k |-> "name", v |->
                               PyDict(<<[k |-> "name", v |-> PyDict(<<>>)],
                                        [k |-> "zz", v |-> PyBool(TRUE)]>>)]>>)]>>),
     PyDict(<<[k |-> "name", v |->
                  PyList(<<PyDict(<<[k |-> "name", v |-> PyList(<<PyDict(<<>>)>>)]>>)>>)]>>)}

\* The documents validated against the messages of a source
DocumentsOf(lines) ==
    (IF lines \in Sources THEN Documents ELSE {})
    \cup (IF lines \in ScalarSources THEN ScalarDocuments ELSE {})
    \cup (IF lines \notin Sources \cup ScalarSources THEN SmallDocuments ELSE {})
    \cup (IF lines \in ReferenceSources THEN NestedDocuments ELSE {})

\* ------------------------------------------------------------------------
\* The program: a source is parsed line by line into proto_file; after the
\* parse a document is generated (as_object) or loaded, and validated.
\* ------------------------------------------------------------------------

VARIABLES
    source,           \* the lines of the file ProtoFile.__init__ reads
    line_no,          \* the number of lines __parse_file has passed on
    proto_file,       \* the ProtoFile object of the parse call
    parses,           \* the number of parse calls on the source
    earlier,          \* the ProtoFile object of the parse call before
    generated,        \* the as_object call made and its outcome
    origin,           \* where test_data is from: "none", "loaded" (a document),
                      \* "as_object" (the object as_object returned), "as_json"
                      \* (that object written as JSON and read back)
    root_field_name,  \* the root of the validate_json calls on test_data
    test_data,        \* the document object handed to validate_json
    calls,            \* the number of validate_json calls on test_data
    report,           \* the outcome of the last validate_json call
    previous          \* the outcome of the validate_json call before it

vars == <<source, line_no, proto_file, parses, earlier, generated, origin, root_field_name,
          test_data, calls, report, previous>>

NoReport ==
    [input |-> None, has_errors |-> FALSE, errors |-> <<>>, test_data |-> None,
     raised |-> "", stdout |-> <<>>, visits |-> <<>>]

NotGenerated == [called |-> FALSE, root |-> "None", result |-> None, raised |-> ""]

Init ==
    /\ source \in AllSources
    /\ line_no = 0
    /\ proto_file = NewProtoFile
    /\ parses = 1
    /\ earlier = None
    /\ generated = NotGenerated
    /\ origin = "none"
    /\ root_field_name = "None"
    /\ test_data = None
    /\ calls = 0
    /\ report = NoReport
    /\ previous = NoReport

Parsed == line_no = Len(source) /\ proto_file.raised = ""

\* The names of the top-level messages
MessageRoots(self) ==
    {self.structure.v[i].k : i \in {j \in 1..Len(self.structure.v) :
                                       self.structure.v[j].v.t = "dict"}}

\* __parse_file: one iteration of "for line in read"
ParseLine ==
    /\ line_no < Len(source)
    /\ proto_file.raised = ""
    /\ proto_file' = parse_line(proto_file, source[line_no + 1], 0)
    /\ line_no' = line_no + 1
    /\ UNCHANGED <<source, parses, earlier, generated, origin, root_field_name, test_data,
                   calls, report, previous>>

\* The parse call has ended: it has passed every line, or a line raised
ParseEnded == line_no = Len(source) \/ proto_file.raised # ""

\* ProtoFile.__init__ that leaves the nesting state as the object held it
init_keeping_nesting(self) ==
    [NewProtoFile EXCEPT !.is_oneof_block = self.is_oneof_block,
                         !.is_enum_block = self.is_enum_block,
                         !.enum_name = self.enum_name,
                         !.message_block = self.message_block,
                         !.message_names_path = self.message_names_path]

\* ProtoFile.__init__ up to the __parse_file call: every attribute of the
\* object is assigned, whatever the object held
init(self) == NewProtoFile

\* ProtoFile(filename) is called once more for the same source.  The model
\* handed to the generator and the validator is the one of the first call.
ParseAgain ==
    /\ ParseEnded
    /\ parses < MaxParses
    /\ origin = "none"
    /\ ~generated.called
    /\ earlier' = proto_file
    /\ proto_file' = init(proto_file)
    /\ line_no' = 0
    /\ parses' = parses + 1
    /\ UNCHANGED <<source, generated, origin, root_field_name, test_data, calls, report,
                   previous>>

Generated(root, made) ==
    generated' = [called |-> TRUE,
                  root |-> root,
                  result |-> IF made.raised = "" THEN made.result ELSE None,
                  raised |-> made.raised]

\* ProtoJson.as_object(proto_file, root)
AsObject(root) ==
    /\ Parsed
    /\ parses = 1
    /\ origin = "none"
    /\ ~generated.called
    /\ Generated(root, as_object(proto_file, root, 0))
    /\ proto_file' = as_object_model(proto_file, root)
    /\ UNCHANGED <<source, line_no, parses, earlier, origin, root_field_name,
                   test_data, calls, report, previous>>

\* A document to validate is read, before any as_object call or after one
\* that ended with RecursionError
LoadDocument(document) ==
    /\ Parsed
    /\ parses = 1
    /\ origin = "none"
    /\ ~generated.called \/ generated.raised = "RecursionError"
    /\ origin' = "loaded"
    /\ test_data' = document
    /\ UNCHANGED <<source, line_no, proto_file, parses, earlier, generated, root_field_name,
                   calls, report, previous>>

\* The object as_object returned is the document to validate
PassResult ==
    /\ generated.called
    /\ generated.raised = ""
    /\ origin = "none"
    /\ origin' = "as_object"
    /\ test_data' = generated.result
    /\ root_field_name' = generated.root
    /\ UNCHANGED <<source, line_no, proto_file, parses, earlier, generated, calls, report,
                   previous>>

\* json.loads(json.dumps(x)): an OrderedDict comes back as a dict
RECURSIVE AsJson(_)
AsJson(x) ==
    IF IsMapping(x)
    THEN PyDict([i \in 1..Len(x.v) |-> [k |-> x.v[i].k, v |-> AsJson(x.v[i].v)]])
    ELSE IF x.t = "list"
    THEN PyList([i \in 1..Len(x.v) |-> AsJson(x.v[i])])
    ELSE x

\* The object as_object returned, written as JSON and read back, is the
\* document to validate
LoadResult ==
    /\ generated.called
    /\ generated.raised = ""
    /\ origin = "none"
    /\ origin' = "as_json"
    /\ test_data' = AsJson(generated.result)
    /\ root_field_name' = generated.root
    /\ UNCHANGED <<source, line_no, proto_file, parses, earlier, generated, calls, report,
                   previous>>

Validated(done) ==
    /\ report' = [input |-> test_data,
                  has_errors |-> done.has_errors,
                  errors |-> done.errors,
                  test_data |-> done.test_data,
                  raised |-> done.raised,
                  stdout |-> done.stdout,
                  visits |-> done.visits]
    /\ test_data' = done.test_data

\* ProtoValidator.validate_json(proto_file, root, test_data)
ValidateJson(root) ==
    /\ Parsed
    /\ origin # "none"
    /\ calls < MaxCalls
    /\ root_field_name # "None" => root = root_field_name
    /\ Validated(validate_json(proto_file, root, test_data))
    /\ previous' = report
    /\ calls' = calls + 1
    /\ root_field_name' = root
    /\ proto_file' = validate_json_model(proto_file, root, test_data)
    /\ UNCHANGED <<source, line_no, parses, earlier, generated, origin>>

Next ==
    \/ ParseLine
    \/ \E root \in MessageRoots(proto_file) : AsObject(root)
    \/ ParseAgain
    \/ \E document \in DocumentsOf(source) : LoadDocument(document)
    \/ PassResult
    \/ LoadResult
    \/ \E root \in MessageRoots(proto_file) : ValidateJson(root)

Spec == Init /\ [][Next]_vars

\* The ParseLine steps, told by the line counter alone
PassesLine == ~ParseEnded /\ line_no' = line_no + 1

\* The loop of __parse_file passes line after line on without waiting for
\* anything: a parse call that has a line left goes on
FairSpec == Spec /\ WF_line_no(PassesLine)

\* ------------------------------------------------------------------------
\* Properties
\* ------------------------------------------------------------------------

\* The entries of the error list at a path, and at or below a path
ErrorsAt(errors, path) == SelectSeq(errors, LAMBDA e : e.path = path)

IsPrefix(prefix, path) ==
    Len(prefix) <= Len(path) /\ SubSeq(path, 1, Len(prefix)) = prefix

ErrorsUnder(errors, prefix) == SelectSeq(errors, LAMBDA e : IsPrefix(prefix, e.path))

ErrorsOfKind(errors, kind) == SelectSeq(errors, LAMBDA e : e.msg.kind = kind)

RootScope == Get(proto_file.structure, root_field_name)
RootFields == Get(RootScope, FIELDS_KEY)

\* A field, in the scope or in a message below it, for which __get_object
\* takes its last branch (the empty structure)
RECURSIVE UsesFallback(_, _)
UsesFallback(self, structure_field) ==
    \E i \in 1..Len(Get(structure_field, FIELDS_KEY).v) :
        LET field == Get(structure_field, FIELDS_KEY).v[i].v
            how == GeneratorResolve(self, structure_field, field)
        IN \/ how.category = "unresolved"
           \/ /\ how.category = "message"
              /\ UsesFallback(IF how.origin = "import"
                              THEN get_import_package(self, field.f.type) ELSE self,
                              how.target)

\* C1: the document as_object generates for a root message, read back as
\* JSON and validated against the same model and root, validates without a
\* discrepancy (validate_json returns, has_errors is False and the list is
\* empty), unless the generator took its fallback branch for a field.
C1_GeneratedDocumentIsValid ==
    (origin = "as_json" /\ calls >= 1 /\ ~UsesFallback(proto_file, RootScope))
        => (report.raised = "" /\ ~report.has_errors /\ report.errors = <<>>)

C2Source ==
    Source("none", "none",
           <<LField(FALSE, "string", "name", "// required"),
             LField(TRUE, "int32", "tags", "")>>)

C2Generated == source = C2Source /\ generated.called /\ generated.root = "M"

\* C2 (as the spec states it): for message M with the required string field
\* name and the field "repeated int32 tags" without a marker, as_object
\* yields {name: "String", tags: [100]}.
C2_ExampleAsStated ==
    C2Generated =>
        /\ generated.raised = ""
        /\ generated.result.v = << [k |-> "name", v |-> PyStr("String")],
                                   [k |-> "tags", v |-> PyList(<<PyInt(100)>>)] >>

\* C2 (amended): for that schema as_object yields {name: "String",
\* tags: [50]}, name before tags: tags is not required, and an integer
\* that is not required is generated as 50.
C2_Example ==
    C2Generated =>
        /\ generated.raised = ""
        /\ generated.result.v = << [k |-> "name", v |-> PyStr("String")],
                                   [k |-> "tags", v |-> PyList(<<PyInt(50)>>)] >>

C2_Witness == C2Generated /\ generated.raised = ""

\* The enum a field's type names: the enum of that name nested in the
\* field's message scope, else the top-level enum of that name
DeclaredEnum(self, proto_scope, field_type) ==
    IF Has(proto_scope, field_type)
    THEN (IF IsEnumField(Get(proto_scope, field_type))
          THEN Get(proto_scope, field_type) ELSE None)
    ELSE IF Has(self.structure, field_type) /\ IsEnumField(Get(self.structure, field_type))
    THEN Get(self.structure, field_type)
    ELSE None

\* The values (the lone value, or the elements of the list of a repeated
\* field) that are no values of the enum
NotInEnum(enum_field, test_message, test_value) ==
    IF test_message.f.is_repeated
    THEN SelectSeq(test_value.v, LAMBDA x : ~InEnumValues(enum_field, x))
    ELSE IF InEnumValues(enum_field, test_value) THEN <<>> ELSE <<test_value>>

\* C3: for an enum-typed field of the root message (repeated with a list
\* value, or not repeated), the discrepancies reported at the field's path
\* are exactly one "unknown value" per value that is not declared in the
\* field's enum, and none for a declared value, whatever else the schema
\* declares under the enum's name.
C3_EnumMembership ==
    (origin = "loaded" /\ calls >= 1) =>
        \A i \in 1..Len(report.input.v) :
            LET test_key == report.input.v[i].k
                test_value == report.input.v[i].v
            IN Has(RootFields, test_key) =>
                 LET test_message == Get(RootFields, test_key)
                     enum_field == DeclaredEnum(proto_file, RootScope, test_message.f.type)
                     found == ErrorsAt(report.errors, <<root_field_name, test_key>>)
                 IN (enum_field # None
                     /\ (test_message.f.is_repeated => test_value.t = "list")) =>
                        LET unknown == NotInEnum(enum_field, test_message, test_value)
                        IN /\ Len(found) = Len(unknown)
                           /\ \A j \in 1..Len(found) :
                                 /\ found[j].msg.kind = "unknown value"
                                 /\ found[j].msg.value = unknown[j]

\* The number of the entries of the error list at a path, of a kind, about
\* a field name
CountErrors(errors, path, kind, name) ==
    Len(SelectSeq(errors, LAMBDA e : e.path = path /\ e.msg.kind = kind /\ e.msg.name = name))

\* The __validate_structure calls at a path that satisfy Cond
VisitsAt(visits, path, Cond(_)) ==
    {n \in 1..Len(visits) : visits[n].path = path /\ Cond(visits[n])}

\* The field is declared is_required in the scope of the visit and absent
\* from the structure the visit is given
MissingRequired(visit, field_name) ==
    /\ Has(visit.proto_fields, field_name)
    /\ Get(visit.proto_fields, field_name).f.is_required
    /\ ~Has(visit.before, field_name)

\* C4: in the error list of a validate_json call, for every structure
\* visited and every field declared in its scope, there is one "is
\* required" entry at the structure's path per visit in which the field is
\* required and absent, none for a field that is present or not required,
\* and no "is required" entry other than these, whatever else the
\* structure lacks or has in excess.
C4_RequiredOncePerMissing ==
    calls >= 1 =>
        /\ \A j \in 1..Len(report.visits) :
               \A i \in 1..Len(report.visits[j].proto_fields.v) :
                   LET path == report.visits[j].path
                       field_name == report.visits[j].proto_fields.v[i].k
                       Missing(visit) == MissingRequired(visit, field_name)
                   IN CountErrors(report.errors, path, "is required", field_name)
                          = Cardinality(VisitsAt(report.visits, path, Missing))
        /\ \A n \in 1..Len(report.errors) :
               report.errors[n].msg.kind = "is required" =>
                   \E j \in 1..Len(report.visits) :
                       /\ report.visits[j].path = report.errors[n].path
                       /\ MissingRequired(report.visits[j], report.errors[n].msg.name)

\* A structure that lacks both required fields of its scope and has an
\* excess key has been validated
C4_Witness ==
    /\ calls >= 1
    /\ \E j \in 1..Len(report.visits) :
           LET visit == report.visits[j]
           IN /\ ExcessKeys(visit.proto_fields, visit.before) # <<>>
              /\ Len(visit.proto_fields.v) = 2
              /\ \A i \in 1..2 : MissingRequired(visit, visit.proto_fields.v[i].k)
              /\ Len(ErrorsOfKind(ErrorsAt(report.errors, visit.path), "is required")) = 2

\* The keys of test_data the scope declares as fields, in their order
DeclaredKeys(proto_fields, structure) ==
    SelectSeq(Keys(structure), LAMBDA test_key : Has(proto_fields, test_key))

IsScalar(x) == x.t \notin {"dict", "list"}

\* The visit is given a structure with the undeclared key
HasExcess(visit, test_key) ==
    Has(visit.before, test_key) /\ ~Has(visit.proto_fields, test_key)

\* C5: after validate_json returned, every structure visited has exactly
\* those of its original keys that its scope declares, in their order
\* (undeclared keys removed, no declared key removed, none added), with the
\* scalar values they had; the error list has one "is excess" entry per
\* undeclared key of a visited structure, at that structure's path, and no
\* other; and the removal is in place: the structure of the root visit is
\* the document handed in and the document left behind, and a structure
\* visited as the value of a field is that value in its parent.
C5_ExcessRemovedInPlace ==
    (calls >= 1 /\ report.raised = "") =>
        /\ \A j \in 1..Len(report.visits) :
               LET visit == report.visits[j]
               IN /\ Keys(visit.after) = DeclaredKeys(visit.proto_fields, visit.before)
                  /\ \A i \in 1..Len(visit.after.v) :
                         IsScalar(Get(visit.before, visit.after.v[i].k)) =>
                             visit.after.v[i].v = Get(visit.before, visit.after.v[i].k)
                  /\ \A i \in 1..Len(visit.before.v) :
                         LET test_key == visit.before.v[i].k
                             Excess(other) == HasExcess(other, test_key)
                         IN ~Has(visit.proto_fields, test_key) =>
                                CountErrors(report.errors, visit.path, "is excess", test_key)
                                    = Cardinality(VisitsAt(report.visits, visit.path, Excess))
                  /\ \A n \in 1..Len(report.visits) :
                         \A i \in 1..Len(visit.before.v) :
                             LET test_key == visit.before.v[i].k
                             IN (/\ report.visits[n].path = Append(visit.path, test_key)
                                 /\ Has(visit.proto_fields, test_key)
                                 /\ ~Get(visit.proto_fields, test_key).f.is_repeated
                                 /\ ~Get(visit.proto_fields, test_key).f.is_map) =>
                                    /\ report.visits[n].before = visit.before.v[i].v
                                    /\ report.visits[n].after = Get(visit.after, test_key)
        /\ \A n \in 1..Len(report.errors) :
               report.errors[n].msg.kind = "is excess" =>
                   \E j \in 1..Len(report.visits) :
                       /\ report.visits[j].path = report.errors[n].path
                       /\ HasExcess(report.visits[j], report.errors[n].msg.name)
        /\ report.input.t = "dict" =>
               /\ report.visits # <<>>
               /\ report.visits[Len(report.visits)].path = <<root_field_name>>
               /\ report.visits[Len(report.visits)].before = report.input
               /\ report.visits[Len(report.visits)].after = report.test_data

\* validate_json returned after it removed an excess key of the document
\* next to a declared key with a scalar value
C5_Witness ==
    /\ calls >= 1
    /\ report.raised = ""
    /\ \E j \in 1..Len(report.visits) :
           LET visit == report.visits[j]
           IN /\ visit.path = <<root_field_name>>
              /\ \E i \in 1..Len(visit.before.v) : HasExcess(visit, visit.before.v[i].k)
              /\ \E i \in 1..Len(visit.after.v) : IsScalar(visit.after.v[i].v)
              /\ Len(visit.after.v) < Len(visit.before.v)

NotExcess(errors) == SelectSeq(errors, LAMBDA e : e.msg.kind # "is excess")

\* C6: a validate_json call on the document that an earlier validate_json
\* call for the same root left behind adds no "is excess" entry to its
\* error list, leaves the document as it was given, and its error list is
\* the earlier call's error list without the "is excess" entries (and it
\* ends as the earlier call ended).
C6_StrippingIdempotent ==
    calls >= 2 =>
        /\ report.input = previous.test_data
        /\ ErrorsOfKind(report.errors, "is excess") = <<>>
        /\ report.test_data = report.input
        /\ report.errors = NotExcess(previous.errors)
        /\ report.raised = previous.raised

\* The second call follows a call that removed two excess keys and had
\* another discrepancy to report
C6_Witness ==
    /\ calls >= 2
    /\ Len(ErrorsOfKind(previous.errors, "is excess")) >= 2
    /\ NotExcess(previous.errors) # <<>>
    /\ previous.test_data # previous.input
    /\ report.raised = ""

\* C7: for every parsed file, top-level message and field of it whose type
\* is not a map, __get_object and __validate_structure take the branch of
\* the same category (scalar, enum, message) with the same origin (the
\* scope, the file, an import) and the same target definition.
C7_SameResolution ==
    Parsed =>
        \A root \in MessageRoots(proto_file) :
            LET proto_scope == Get(proto_file.structure, root)
                proto_fields == Get(proto_scope, FIELDS_KEY)
            IN \A i \in 1..Len(proto_fields.v) :
                   ~proto_fields.v[i].v.f.is_map =>
                       GeneratorResolve(proto_file, proto_scope, proto_fields.v[i].v)
                           = ValidatorResolve(proto_file, proto_scope, proto_fields.v[i].v)

\* The map's value type is a scalar kind, a message the file or the scope
\* declares, or a type of an imported package
MapValueDeclared(self, proto_scope, map_value_type) ==
    \/ is_base_type(map_value_type)
    \/ has_in_imports(self, map_value_type)
    \/ Has(proto_scope, map_value_type) /\ Get(proto_scope, map_value_type).t = "dict"
    \/ Has(self.structure, map_value_type) /\ Get(self.structure, map_value_type).t = "dict"

\* What C8 asks of one entry of the map at new_path
MapEntryValidated(result, new_path, map_value_type, key, value) ==
    IF is_base_type(map_value_type)
    THEN CountErrors(result.errors, new_path, "wrong value's type for key", key)
             = (IF validate_base_type(map_value_type, value) # None THEN 1 ELSE 0)
    ELSE IF value.t = "dict"
    THEN \E n \in 1..Len(result.visits) :
             /\ result.visits[n].path = Append(new_path, key)
             /\ result.visits[n].before = value
    ELSE Len(ErrorsOfKind(ErrorsAt(result.errors, Append(new_path, key)),
                          "expected structure")) = 1

\* C8: for a field of the root message declared map<K, V>, V a scalar kind
\* or a message declared in the file, in the scope or in an imported
\* package: validate_json returns; when the field's value is a structure,
\* every entry is validated (V scalar: one per-key error at the field's path
\* if the entry's value is of another type, none otherwise; V a message:
\* the entry's value is visited as a structure, or reported as not being
\* one); when the value is not a structure, the field's path has exactly
\* one error, "not a valid map".
C8_MapValidation ==
    (origin = "loaded" /\ calls >= 1) =>
        \A i \in 1..Len(report.input.v) :
            LET test_key == report.input.v[i].k
                test_value == report.input.v[i].v
                new_path == <<root_field_name, test_key>>
            IN (/\ Has(RootFields, test_key)
                /\ Get(RootFields, test_key).f.is_map
                /\ ~Get(RootFields, test_key).f.is_repeated
                /\ MapValueDeclared(proto_file, RootScope,
                                    MapValueType(Get(RootFields, test_key).f.type))) =>
                   /\ report.raised = ""
                   /\ IF test_value.t = "dict"
                      THEN \A n \in 1..Len(test_value.v) :
                               MapEntryValidated(report, new_path,
                                                 MapValueType(Get(RootFields, test_key).f.type),
                                                 test_value.v[n].k, test_value.v[n].v)
                      ELSE /\ Len(ErrorsAt(report.errors, new_path)) = 1
                           /\ ErrorsAt(report.errors, new_path)[1].msg.kind = "not a valid map"

\* The document with the entry i of the document alone
SingleKey(document, i) == PyDict(<<document.v[i]>>)

\* The errors at and below the entry i of the document are those of the
\* validation of the entry alone
SameAsAlone(result, self, root, document, i) ==
    ErrorsUnder(result.errors, <<root, document.v[i].k>>)
        = ErrorsUnder(validate_json(self, root, SingleKey(document, i)).errors,
                      <<root, document.v[i].k>>)

\* The body of the loop of __validate_structure gets to its end for the
\* entry: the type is none of scalar, map, enum, message, imported
Unresolved(self, proto_scope, test_message, test_value) ==
    /\ ValidatorResolve(self, proto_scope, test_message).category = "unresolved"
    /\ ~(test_message.f.is_repeated /\ test_value.t # "list")

\* C9: when the type of a field of the root message that the document has
\* resolves to none of scalar, map, enum, message and imported message,
\* validate_json returns with has_errors True and an entry of the error
\* list at the field's path or naming the field at the root's path, and
\* the errors of every other field are those it has when validated alone.
C9_UnresolvedReported ==
    (origin = "loaded" /\ calls >= 1) =>
        \A i \in 1..Len(report.input.v) :
            LET test_key == report.input.v[i].k
            IN (/\ Has(RootFields, test_key)
                /\ Unresolved(proto_file, RootScope, Get(RootFields, test_key),
                              report.input.v[i].v)) =>
                   /\ report.raised = ""
                   /\ report.has_errors
                   /\ \E n \in 1..Len(report.errors) :
                          \/ report.errors[n].path = <<root_field_name, test_key>>
                          \/ /\ report.errors[n].path = <<root_field_name>>
                             /\ report.errors[n].msg.name = test_key
                   /\ \A j \in 1..Len(report.input.v) :
                          j # i => SameAsAlone(report, proto_file, root_field_name,
                                               report.input, j)

\* C10: for every document and every key of it, the errors validate_json
\* lists at and below the key's path are the errors it lists there for the
\* document that has this key alone: what the other keys hold, and what
\* their validation runs into, changes nothing for the key.
C10_NeverStopsAtFirstProblem ==
    (origin = "loaded" /\ calls >= 1) =>
        \A i \in 1..Len(report.input.v) :
            SameAsAlone(report, proto_file, root_field_name, report.input, i)

\* The field of the root message is declared repeated and the document has
\* a value for it that is no list
RepeatedNotArray(test_key, test_value) ==
    /\ Has(RootFields, test_key)
    /\ Get(RootFields, test_key).f.is_repeated
    /\ test_value.t # "list"

\* C11: for every field of the root message declared repeated whose value in
\* the document is not a list, the error list has, at and below the field's
\* path, exactly one entry, "expected array" at the field's path, and no
\* structure at or below that path is visited, whatever the field's type.
C11_RepeatedNotArray ==
    (origin = "loaded" /\ calls >= 1) =>
        \A i \in 1..Len(report.input.v) :
            LET test_key == report.input.v[i].k
                new_path == <<root_field_name, test_key>>
                found == ErrorsUnder(report.errors, new_path)
            IN RepeatedNotArray(test_key, report.input.v[i].v) =>
                   /\ Len(found) = 1
                   /\ found[1].path = new_path
                   /\ found[1].msg.kind = "expected array"
                   /\ \A n \in 1..Len(report.visits) :
                          ~IsPrefix(new_path, report.visits[n].path)

\* C11 where validate_json returned
C11_WhenReturned == report.raised = "" => C11_RepeatedNotArray

Attributes == DOMAIN NewProtoFile

\* The step changes no attribute of the object other than those named
OnlyChanges(attributes) ==
    \A a \in Attributes \ attributes : proto_file'[a] = proto_file[a]

\* __parse_file passes the next line of the source on, and it is of the kind
LineStep(kind) ==
    /\ line_no' = line_no + 1
    /\ proto_file.raised = ""
    /\ source[line_no + 1].kind = kind

\* The entries of the mapping other than the one under the name
Others(mapping, name) == SelectSeq(mapping.v, LAMBDA entry : entry.k # name)

\* What a "}" line does to the object
ClosesOneBlock ==
    IF proto_file.is_enum_block
    THEN /\ ~proto_file'.is_enum_block
         /\ proto_file'.enum_name = None
         /\ OnlyChanges({"is_enum_block", "enum_name"})
    ELSE IF proto_file.is_oneof_block
    THEN /\ ~proto_file'.is_oneof_block
         /\ OnlyChanges({"is_oneof_block"})
    ELSE IF Len(proto_file.message_names_path) > 1
    THEN /\ proto_file'.message_names_path
                = SubSeq(proto_file.message_names_path, 1,
                         Len(proto_file.message_names_path) - 1)
         /\ OnlyChanges({"message_names_path"})
    ELSE LET name == proto_file.message_names_path[1]
         IN /\ Has(proto_file'.structure, name)
            /\ Get(proto_file'.structure, name) = Get(proto_file.message_block, name)
            /\ Others(proto_file'.structure, name) = Others(proto_file.structure, name)
            /\ proto_file'.message_block = None
            /\ proto_file'.message_names_path = <<>>
            /\ OnlyChanges({"structure", "message_block", "message_names_path"})

\* C13 (the "}" line): with an enum, a oneof or a message open, a "}" line
\* closes exactly one block: the enum if one is open (flag and name cleared,
\* nothing else changed), else the oneof (flag cleared, nothing else
\* changed), else, with a path longer than one name, the last name of the
\* path is dropped (nothing else changed), else the root message of the
\* pending tree is stored in the top-level mapping under its name and the
\* pending tree and the path are cleared (nothing else changed).
C13_CloseBlock ==
    [][(/\ LineStep("close")
        /\ \/ proto_file.is_enum_block
           \/ proto_file.is_oneof_block
           \/ proto_file.message_names_path # <<>>) => ClosesOneBlock]_vars

\* The blocks open after the lines, innermost last, the top-level messages
\* closed, and whether the lines are well nested: no "}" without an open
\* block, messages at the top level or in a message, enums at the top level
\* or in a message, a oneof in a message
RECURSIVE Nesting(_, _)
Nesting(lines, sofar) ==
    IF lines = <<>> \/ ~sofar.nested THEN sofar
    ELSE LET line == Head(lines)
             open == sofar.open
             innermost == IF open = <<>> THEN "none" ELSE open[Len(open)].kind
         IN Nesting(Tail(lines),
              CASE line.kind = "message" ->
                     [sofar EXCEPT !.open = Append(open, [kind |-> "message", name |-> line.name]),
                                   !.nested = innermost \in {"none", "message"}]
                [] line.kind = "enum" ->
                     [sofar EXCEPT !.open = Append(open, [kind |-> "enum", name |-> line.name]),
                                   !.nested = innermost \in {"none", "message"}]
                [] line.kind = "oneof" ->
                     [sofar EXCEPT !.open = Append(open, [kind |-> "oneof", name |-> line.name]),
                                   !.nested = innermost = "message"]
                [] line.kind = "close" ->
                     IF open = <<>> THEN [sofar EXCEPT !.nested = FALSE]
                     ELSE [sofar EXCEPT !.open = SubSeq(open, 1, Len(open) - 1),
                                        !.closed = IF Len(open) = 1 /\ innermost = "message"
                                                   THEN @ \cup {open[1].name} ELSE @]
                [] OTHER -> sofar)

Passed == Nesting(SubSeq(source, 1, line_no), [open |-> <<>>, closed |-> {}, nested |-> TRUE])

OpenOfKind(open, kind) == SelectSeq(open, LAMBDA block : block.kind = kind)

\* C13 (the sequence): after the lines of a well-nested sequence of blocks,
\* every top-level message whose "}" has been passed is a message scope in
\* the top-level mapping, and the nesting state is the blocks still open:
\* the path names the open messages, the flags tell an open enum and an open
\* oneof, the pending tree is there while a message is open; with no block
\* open the nesting state is empty again.
C13_WellNested ==
    (proto_file.raised = "" /\ Passed.nested) =>
        /\ \A name \in Passed.closed :
               /\ Has(proto_file.structure, name)
               /\ Get(proto_file.structure, name).t = "dict"
        /\ proto_file.message_names_path
               = [i \in 1..Len(OpenOfKind(Passed.open, "message")) |->
                      OpenOfKind(Passed.open, "message")[i].name]
        /\ proto_file.is_enum_block = (OpenOfKind(Passed.open, "enum") # <<>>)
        /\ proto_file.is_oneof_block = (OpenOfKind(Passed.open, "oneof") # <<>>)
        /\ (proto_file.message_block = None) = (OpenOfKind(Passed.open, "message") = <<>>)
        /\ proto_file.enum_name = None <=> OpenOfKind(Passed.open, "enum") = <<>>

\* C13: a "}" line closes exactly one block, by the priority enum, oneof,
\* nested message, root message, and after a well-nested sequence of blocks
\* every closed top-level message is in the top-level mapping and the
\* nesting state is that of the blocks still open.
C13_ClosesInnermost == C13_CloseBlock /\ []C13_WellNested

\* The "}" of a top-level message with a nested message, a nested enum and a
\* oneof has just been passed, and no block is open
C13_Witness ==
    /\ proto_file.raised = ""
    /\ Passed.nested
    /\ Passed.open = <<>>
    /\ line_no > 0
    /\ source[line_no].kind = "close"
    /\ "M" \in Passed.closed
    /\ \E i \in 1..line_no : source[i].kind = "oneof"
    /\ \E name \in {"N", "__fields__"} :
           /\ Has(Get(proto_file.structure, "M"), name)
           /\ Has(Get(Get(proto_file.structure, "M"), name), "E")
    /\ proto_file.message_names_path = <<>>
    /\ proto_file.message_block = None

\* The step leaves the pending tree as it is outside the scope at the end of
\* the path: every scope on the way to it keeps its keys, in their order,
\* and its entries other than the one on the way
SameOutside(path) ==
    \A n \in 0..(Len(path) - 1) :
        LET before == Walk(proto_file.message_block, SubSeq(path, 1, n))
            after == Walk(proto_file'.message_block, SubSeq(path, 1, n))
        IN /\ IsMapping(after)
           /\ Keys(after) = Keys(before)
           /\ Others(after, path[n + 1]) = Others(before, path[n + 1])

\* The mapping after is the mapping before with the value entered under the
\* name: in place if the name was a key, else after the last key
Entered(before, after, name, value) ==
    /\ IsMapping(after)
    /\ Keys(after) = (IF Has(before, name) THEN Keys(before) ELSE Append(Keys(before), name))
    /\ Get(after, name) = value
    /\ Others(after, name) = Others(before, name)

\* The scope after is the scope before with the value entered under the name
\* in its fields mapping, and nothing else of the scope changed
FieldEntered(before, after, name, value) ==
    /\ IsMapping(after)
    /\ Keys(after) = Keys(before)
    /\ Others(after, FIELDS_KEY) = Others(before, FIELDS_KEY)
    /\ IsMapping(Get(before, FIELDS_KEY))
    /\ Entered(Get(before, FIELDS_KEY), Get(after, FIELDS_KEY), name, value)

\* What a field line does inside a message (or a oneof of it)
RegistersField(line) ==
    LET path == proto_file.message_names_path
    IN /\ OnlyChanges({"message_block"})
       /\ SameOutside(path)
       /\ FieldEntered(Walk(proto_file.message_block, path),
                       Walk(proto_file'.message_block, path), line.name,
                       MessageField(line.field_type, line.repeated,
                                    EndsWithRequired(line.suffix)))

\* What a message line does: a nested message is a named entry of the
\* message at the end of the path, a message outside every message is the
\* root of a new pending tree (C13 has it stored at its "}"); the path ends
\* with the new message
RegistersMessage(line) ==
    LET path == proto_file.message_names_path
    IN /\ OnlyChanges({"message_block", "message_names_path"})
       /\ proto_file'.message_names_path = Append(path, line.name)
       /\ IF proto_file.message_block = None
          THEN proto_file'.message_block = PyDict(<< [k |-> line.name, v |-> NewScope] >>)
          ELSE /\ SameOutside(path)
               /\ Entered(Walk(proto_file.message_block, path),
                          Walk(proto_file'.message_block, path), line.name, NewScope)

\* What an enum line does: the enum is a named entry of the message at the
\* end of the path, or of the top-level mapping outside every message
RegistersEnum(line) ==
    LET path == proto_file.message_names_path
    IN /\ proto_file'.is_enum_block
       /\ proto_file'.enum_name = PyStr(line.name)
       /\ IF proto_file.message_block = None
          THEN /\ OnlyChanges({"is_enum_block", "enum_name", "structure"})
               /\ Entered(proto_file.structure, proto_file'.structure, line.name,
                          EnumField(line.name))
          ELSE /\ OnlyChanges({"is_enum_block", "enum_name", "message_block"})
               /\ SameOutside(path)
               /\ Entered(Walk(proto_file.message_block, path),
                          Walk(proto_file'.message_block, path), line.name,
                          EnumField(line.name))

\* C14: every declaration line registers its declaration in the innermost
\* open message scope and nowhere else: a field line (outside an enum, with
\* a message open) enters the field in the fields mapping of the message at
\* the end of the path, after the fields entered before; a message or enum
\* line enters a new scope or enum under its name in the message at the end
\* of the path, or, with no message open, as the root of the pending tree
\* (message) or in the top-level mapping (enum); no other scope and no
\* other entry of that scope changes.
C14_RegisteredInInnermostScope ==
    [][/\ (/\ LineStep("other")
           /\ source[line_no + 1].shape = "field"
           /\ ~proto_file.is_enum_block
           /\ proto_file.message_block # None) => RegistersField(source[line_no + 1])
       /\ LineStep("message") => RegistersMessage(source[line_no + 1])
       /\ LineStep("enum") => RegistersEnum(source[line_no + 1])]_vars

\* No message and no enum of the source has the fields key as its name
NoFieldsKeyName ==
    \A i \in 1..Len(source) :
        source[i].kind \in {"message", "enum"} => source[i].name # FIELDS_KEY

\* C14 for the sources in which nothing is declared under the fields key
C14_WhenNoFieldsKeyName ==
    [][NoFieldsKeyName =>
         /\ (/\ LineStep("other")
             /\ source[line_no + 1].shape = "field"
             /\ ~proto_file.is_enum_block
             /\ proto_file.message_block # None) => RegistersField(source[line_no + 1])
         /\ LineStep("message") => RegistersMessage(source[line_no + 1])
         /\ LineStep("enum") => RegistersEnum(source[line_no + 1])]_vars

\* The mapping is the union of the two: the keys of the earlier one, then
\* the keys only the later one has, and under a key of both the value of
\* the later one
IsUnion(mapping, before, later) ==
    /\ IsMapping(mapping)
    /\ Keys(mapping) = Keys(before) \o SelectSeq(Keys(later), LAMBDA k : ~Has(before, k))
    /\ \A i \in 1..Len(mapping.v) :
           mapping.v[i].v = (IF Has(later, mapping.v[i].k) THEN Get(later, mapping.v[i].k)
                             ELSE Get(before, mapping.v[i].k))

\* What an import line with an internal path does, the imported source
\* having been parsed into proto_module
ImportsModule(proto_module) ==
    LET key == PackageKey(proto_module.package)
        before == proto_file.imported_packages
        after == proto_file'.imported_packages
    IN /\ OnlyChanges({"imported_packages"})
       /\ Has(after, key)
       /\ Others(after, key) = Others(before, key)
       /\ IF ~Has(before, key)
          THEN /\ Keys(after) = Append(Keys(before), key)
               /\ Get(after, key) = proto_module
          ELSE /\ Keys(after) = Keys(before)
               /\ IsUnion(Get(after, key).structure, Get(before, key).structure,
                          proto_module.structure)
               /\ IsUnion(Get(after, key).imported_packages,
                          Get(before, key).imported_packages,
                          proto_module.imported_packages)
               /\ \A a \in Attributes \ {"structure", "imported_packages"} :
                      Get(after, key)[a] = Get(before, key)[a]

\* C15: an import line whose path is not that of an internal schema changes
\* nothing; one whose path is, and whose source parses, stores the model of
\* that source under its package name if the name is not stored yet, and
\* else merges its top-level types and its imports into the stored model
\* (union, the later declaration replacing the earlier one under a name of
\* both); the line changes nothing else of the importing object: not its
\* nesting state, not its top-level mapping.
C15_ImportStoredOrMerged ==
    [][LineStep("import") =>
         LET field == source[line_no + 1].name
         IN IF ~StartsWithProto(field) THEN proto_file' = proto_file
            ELSE ProtoFile(field, 1).raised = "" => ImportsModule(ProtoFile(field, 1))]_vars

\* An import line has merged the model of a source into the model stored
\* under the same package name: the stored model has a type only the
\* earlier source declares and one only the later source declares
C15_Witness ==
    /\ line_no > 0
    /\ source[line_no].kind = "import"
    /\ proto_file.raised = ""
    /\ Len(proto_file.imported_packages.v) = 1
    /\ Has(proto_file.imported_packages, "core")
    /\ Has(Get(proto_file.imported_packages, "core").structure, "Kind")
    /\ Has(Get(proto_file.imported_packages, "core").structure, "Badge")
    /\ proto_file.structure.v # <<>>

\* The internal paths the import lines name
ImportsOf(lines) ==
    {lines[i].name : i \in {j \in 1..Len(lines) :
                              lines[j].kind = "import" /\ StartsWithProto(lines[j].name)}}

FileImports(filename) == IF FileExists(filename) THEN ImportsOf(FileLines(filename)) ELSE {}

\* The files reached from the files by at most n import lines
RECURSIVE ReachedFrom(_, _)
ReachedFrom(files, n) ==
    IF n = 0 THEN files
    ELSE ReachedFrom(files \cup UNION {FileImports(filename) : filename \in files}, n - 1)

\* The import graph reached from the file has a cycle: a file of it is
\* reached from its own imports
EntersCycle(filename) ==
    \E other \in ReachedFrom({filename}, Len(Files)) :
        other \in ReachedFrom(FileImports(other), Len(Files))

\* Line i of the source imports a file whose import graph has a cycle
CycleAt(i) ==
    /\ source[i].kind = "import"
    /\ StartsWithProto(source[i].name)
    /\ EntersCycle(source[i].name)

ImportCycle == \E i \in 1..Len(source) : CycleAt(i)

\* C16 (as the spec states it): the parse of a source whose import graph
\* has a cycle never completes: the parse call never ends.
C16_CycleNeverEnds == ImportCycle => ~ParseEnded

\* The safety part of C16 (amended)
C16_RecursionErrorIffCycle ==
    /\ \A i \in 1..line_no :
           CycleAt(i) => (i = line_no /\ proto_file.raised = "RecursionError")
    /\ proto_file.raised = "RecursionError" => (line_no > 0 /\ CycleAt(line_no))
    /\ (ParseEnded /\ ImportCycle) => proto_file.raised # ""

\* C16 (amended): every parse call ends.  It ends with RecursionError, and
\* returns no model, when it comes to an import line whose import graph has
\* a cycle (a file importing itself included): the recursion goes on, with
\* no visited-set check, until the call stack is used up.  It never ends
\* with RecursionError otherwise: without a cycle the recursion is as deep
\* as the import graph and the imports are parsed.
C16_EndsAndCycleRaises == []C16_RecursionErrorIffCycle /\ <>ParseEnded

\* The parse call has come to an import line whose graph has a cycle of two
\* files, after an import without a cycle, and has ended with RecursionError
C16_Witness ==
    /\ ParseEnded
    /\ line_no > 1
    /\ CycleAt(line_no)
    /\ source[line_no].name = "proto/ping.proto"
    /\ source[line_no - 1].kind = "import"
    /\ ~CycleAt(line_no - 1)
    /\ Has(proto_file.imported_packages, "ui")
    /\ proto_file.raised = "RecursionError"

\* The next line is passed on while an enum or a message is open, and it
\* has neither the shape of an enum value (or "reserved") nor that of a field
UnmatchedLineStep ==
    /\ LineStep("other")
    /\ source[line_no + 1].shape = "garbage"
    /\ proto_file.is_enum_block \/ proto_file.message_block # None

\* The next line imports the source that has such a line inside a message
UnmatchedImportStep ==
    /\ LineStep("import")
    /\ source[line_no + 1].name = "proto/bad.proto"

\* At such a line the parse fails with the exception and the object is left
\* as it was; and once a line has failed no later line is passed on
FailsAtOnce(exception) ==
    /\ (UnmatchedLineStep \/ UnmatchedImportStep) =>
           (proto_file'.raised = exception /\ OnlyChanges({"raised"}))
    /\ (proto_file.raised # "" /\ parses' = parses) => UNCHANGED vars

\* No model of a source whose parse failed is handed to the generator or
\* the validator
NoModelReturned == proto_file.raised # "" => (origin = "none" /\ ~generated.called /\ calls = 0)

\* C17: a line that, with an enum or a message open, has neither the shape
\* of an enum value (or "reserved") nor that of a field makes the parse fail
\* at that line with SchemaSyntaxError, also when the line is in an imported
\* source: no later line is passed on and no model is returned.
C17_FailsWithSchemaSyntaxError == [][FailsAtOnce("SchemaSyntaxError")]_vars /\ []NoModelReturned

\* C17 with the exception the code raises
C17_FailsWithAttributeError == [][FailsAtOnce("AttributeError")]_vars /\ []NoModelReturned

\* The kind of value the scalar type takes ("any": no kind is asked for)
ScalarKind(proto_type) ==
    CASE proto_type \in {"string", "google.protobuf.StringValue"} -> "str"
      [] proto_type \in {"float", "double"} -> "float"
      [] proto_type \in {"bool", "google.protobuf.BoolValue"} -> "bool"
      [] proto_type = "bytes" -> "any"
      [] OTHER -> "int"

Mismatches(proto_type, value) ==
    ScalarKind(proto_type) # "any" /\ value.t # ScalarKind(proto_type)

\* The values of a scalar field that are validated: the value, or the
\* elements of the list of a repeated field
ValidatedValues(test_message, test_value) ==
    IF test_message.f.is_repeated THEN test_value.v ELSE <<test_value>>

\* C18: after a validate_json call that returned, for every scalar-typed
\* field of the root message with a value in the document (a list, if the
\* field is repeated), the errors at the field's path are, in the order of
\* the values, one "wrong type" entry per value whose kind is not the kind
\* of the declared type, naming the declared type and the value (string
\* types take only str, integer types only int and no bool, floating-point
\* types only float, boolean types only bool); a value of the kind, and any
\* value of a bytes field, gets no entry.
C18_ScalarKinds ==
    (origin = "loaded" /\ calls >= 1 /\ report.raised = "") =>
        \A i \in 1..Len(report.input.v) :
            LET test_key == report.input.v[i].k
                test_value == report.input.v[i].v
                found == ErrorsAt(report.errors, <<root_field_name, test_key>>)
            IN (/\ Has(RootFields, test_key)
                /\ Get(RootFields, test_key).f.is_base_type
                /\ Get(RootFields, test_key).f.is_repeated => test_value.t = "list") =>
                   LET proto_type == Get(RootFields, test_key).f.type
                       Wrong(value) == Mismatches(proto_type, value)
                       wrong == SelectSeq(ValidatedValues(Get(RootFields, test_key),
                                                          test_value), Wrong)
                   IN /\ Len(found) = Len(wrong)
                      /\ \A j \in 1..Len(found) :
                             /\ found[j].msg.kind = "wrong type"
                             /\ found[j].msg.expected = proto_type
                             /\ found[j].msg.value = wrong[j]

\* A list of a repeated integer field with a bool and an int has been
\* validated: one entry, for the bool
C18_Witness ==
    /\ origin = "loaded"
    /\ calls >= 1
    /\ report.raised = ""
    /\ Has(RootFields, "name")
    /\ Get(RootFields, "name").f.type = "sint64"
    /\ Get(RootFields, "name").f.is_repeated
    /\ Has(report.input, "name")
    /\ Get(report.input, "name") = PyList(<<PyBool(TRUE), PyInt(100)>>)
    /\ Len(ErrorsAt(report.errors, <<root_field_name, "name">>)) = 1

\* The scope has, under the fields key, the ordered mapping of fields, and
\* its other entries are enums and scopes like that
RECURSIVE IsMessageScope(_)
IsMessageScope(scope) ==
    /\ scope.t = "dict"
    /\ Has(scope, FIELDS_KEY)
    /\ Get(scope, FIELDS_KEY).t = "OrderedDict"
    /\ \A i \in 1..Len(Get(scope, FIELDS_KEY).v) : IsMessageField(Get(scope, FIELDS_KEY).v[i].v)
    /\ \A i \in 1..Len(scope.v) :
           scope.v[i].k # FIELDS_KEY =>
               (IsEnumField(scope.v[i].v) \/ IsMessageScope(scope.v[i].v))

\* The fields declared for the message at the end of the path by the lines
\* passed on so far are the keys of its fields mapping
FieldsKept ==
    (proto_file.raised = "" /\ Passed.nested /\ OpenOfKind(Passed.open, "message") # <<>>
     /\ OpenOfKind(Passed.open, "enum") = <<>> /\ line_no > 0
     /\ source[line_no].kind = "other" /\ source[line_no].shape = "field") =>
        LET block == Walk(proto_file.message_block, proto_file.message_names_path)
        IN /\ IsMapping(Get(block, FIELDS_KEY))
           /\ Has(Get(block, FIELDS_KEY), source[line_no].name)

\* C19: in every message scope the parser has built, in the pending tree
\* and in the top-level mapping, the entry under the fields key is the
\* ordered mapping of the message's fields, whatever names the lines passed
\* on declare: no declaration the parser accepts takes its place.
C19_FieldsKeyIsFieldsMapping ==
    /\ \A i \in 1..Len(proto_file.structure.v) :
           IsEnumField(proto_file.structure.v[i].v)
               \/ IsMessageScope(proto_file.structure.v[i].v)
    /\ proto_file.message_block # None =>
           \A i \in 1..Len(proto_file.message_block.v) :
               IsMessageScope(proto_file.message_block.v[i].v)
    /\ FieldsKept

\* C19 for the sources in which nothing is declared under the fields key
C19_WhenNoFieldsKeyName == NoFieldsKeyName => C19_FieldsKeyIsFieldsMapping

\* A source that declares a message or an enum under the fields key has been
\* parsed to its end without an exception
FieldsKeyNameAccepted == Parsed /\ ~NoFieldsKeyName

\* The declarations of the name that a field of the scope may mean: the
\* entry of the scope and the entry of the top-level mapping
LocalDeclarations(self, proto_scope, name) ==
    (IF name # FIELDS_KEY /\ Has(proto_scope, name) THEN {Get(proto_scope, name)} ELSE {})
    \cup (IF Has(self.structure, name) THEN {Get(self.structure, name)} ELSE {})

\* The type is resolved to one of the local declarations: as an enum if it
\* is an enum, as a message of the file if it is a message scope
ResolvedLocally(how, declarations) ==
    /\ how.origin # "import"
    /\ how.target \in declarations
    /\ how.category = (IF IsEnumField(how.target) THEN "enum" ELSE "message")

\* C20: for every parsed file, top-level message and field of it whose type
\* is a package-qualified name (not a map) such that the name after the
\* qualification is declared in the message's scope or at the top level of
\* the file, __get_object and __validate_structure both resolve the type to
\* that local declaration: enum if it is an enum, local message if it is a
\* message scope.
C20_QualifiedResolvesLocally ==
    Parsed =>
        \A root \in MessageRoots(proto_file) :
            LET proto_scope == Get(proto_file.structure, root)
                proto_fields == Get(proto_scope, FIELDS_KEY)
            IN IsMapping(proto_fields) =>
                 \A i \in 1..Len(proto_fields.v) :
                   LET field == proto_fields.v[i].v
                   IN (/\ IsMessageField(field)
                       /\ ~field.f.is_map
                       /\ ~field.f.is_base_type
                       /\ HasDot(field.f.type)) =>
                        LET declarations ==
                                LocalDeclarations(proto_file, proto_scope,
                                                  SplitDot(field.f.type)[2])
                        IN declarations # {} =>
                             /\ ResolvedLocally(GeneratorResolve(proto_file, proto_scope, field),
                                                declarations)
                             /\ ResolvedLocally(ValidatorResolve(proto_file, proto_scope, field),
                                                declarations)

\* ------------------------------------------------------------------------
\* C21: the consumers leave the model alone
\* ------------------------------------------------------------------------

\* A step that is a call of as_object
Generates == ~generated.called /\ generated'.called

\* A step that is a call of validate_json
Validates == calls' = calls + 1

MessageNode(model, scope) == [model |-> model, scope |-> scope]

\* The fields of a message (none for what is no message scope)
FieldsOf(scope) ==
    IF scope.t \in {"dict", "OrderedDict"} /\ Has(scope, FIELDS_KEY)
       /\ Get(scope, FIELDS_KEY).t \in {"dict", "OrderedDict"}
    THEN {Get(scope, FIELDS_KEY).v[i].v : i \in 1..Len(Get(scope, FIELDS_KEY).v)}
    ELSE {}

\* The messages the fields of a message refer to: the type of a field that
\* is no scalar and no map names a message of an imported model, of the
\* message's own scope, or of the top level of its file
MessageReferences(node) ==
    {MessageNode(IF GeneratorResolve(node.model, node.scope, field).origin = "import"
                 THEN get_import_package(node.model, field.f.type) ELSE node.model,
                 GeneratorResolve(node.model, node.scope, field).target) :
         field \in {f \in FieldsOf(node.scope) :
                       /\ IsMessageField(f)
                       /\ ~f.f.is_map
                       /\ GeneratorResolve(node.model, node.scope, f).category = "message"}}

\* The messages reached from a set of messages by references
RECURSIVE ReferencedFrom(_)
ReferencedFrom(nodes) ==
    IF UNION {MessageReferences(node) : node \in nodes} \subseteq nodes THEN nodes
    ELSE ReferencedFrom(nodes \cup UNION {MessageReferences(node) : node \in nodes})

\* A message reached from the root refers, directly or through other
\* messages, to itself
ReferenceCycle(root) ==
    \E node \in ReferencedFrom({MessageNode(proto_file, Get(proto_file.structure, root))}) :
        node \in ReferencedFrom(MessageReferences(node))

\* The number of objects (dictionaries) of a document
RECURSIVE Objects(_)
RECURSIVE ObjectsIn(_)
ObjectsIn(values) ==
    IF values = <<>> THEN 0 ELSE Objects(Head(values)) + ObjectsIn(Tail(values))

Objects(x) ==
    IF x.t \in {"dict", "OrderedDict"}
    THEN 1 + ObjectsIn([i \in 1..Len(x.v) |-> x.v[i].v])
    ELSE IF x.t = "list" THEN ObjectsIn(x.v)
    ELSE 0

\* C22 (as the spec states it): an as_object call for a root whose message
\* references have a cycle recurses without bound: the call never ends.
C22_CycleNeverEnds == generated.called => ~ReferenceCycle(generated.root)

\* C22 (amended): every as_object call ends.  For a root from which no
\* message that refers back to itself (directly or through others; by a
\* repeated field or not; by a local, top-level or imported type; map fields
\* not counted) is reached, it never ends with RecursionError.  For a root
\* from which such a message is reached it returns no document: it ends
\* with an exception, RecursionError when the recursion got into the cycle.
\* A validate_json call ends for every document and every root, cycle or
\* not, after at most one __validate_structure call per object of the
\* document, and never with RecursionError.
C22_EndsAndCycleRaises ==
    /\ generated.called =>
         IF ReferenceCycle(generated.root)
         THEN /\ generated.raised # ""
              /\ generated.result = None
              /\ source \in ReferenceSources => generated.raised = "RecursionError"
         ELSE /\ generated.raised # "RecursionError"
              /\ source \in ReferenceSources =>
                    (generated.raised = "" /\ generated.result.t = "OrderedDict")
    /\ calls >= 1 =>
         /\ report.raised # "RecursionError"
         /\ Len(report.visits) <= Objects(report.input)

\* as_object was called for a root that has no field of its own type, from
\* which a message that refers back to itself is reached, and ended with
\* RecursionError; validate_json, called for that root with a document of
\* objects one inside the other, returned after one __validate_structure
\* call for each of them
C22_Witness ==
    /\ generated.called
    /\ generated.raised = "RecursionError"
    /\ ReferenceCycle(generated.root)
    /\ MessageNode(proto_file, Get(proto_file.structure, generated.root))
           \notin MessageReferences(MessageNode(proto_file,
                                                Get(proto_file.structure, generated.root)))
    /\ calls >= 1
    /\ root_field_name = generated.root
    /\ report.raised = ""
    /\ Len(report.visits) = Objects(report.input)
    /\ Objects(report.input) > 3

====
